---- MODULE Spec2Model ----
(***************************************************************************)
(* A model of the agenda action-item pipeline of the Director's Personal   *)
(* Assistant Dashboard: document parsing (parse_docx), LLM response        *)
(* parsing and normalisation, the External ID, the hosted-store upsert     *)
(* and the Drive walker.                                                   *)
(*                                                                         *)
(* Python strings are modelled as sequences of one-character strings, so   *)
(* that strip(), upper(), startswith(), find() and "in" are computed as    *)
(* the code computes them.                                                 *)
(***************************************************************************)
EXTENDS Integers, Sequences, FiniteSets, TLC

VARIABLES
    idlog,                    \* make_external_id: the calls made so far
    doc_paragraphs,           \* parse_docx: doc.paragraphs read so far
    current_section_status,   \* parse_docx: the running section status
    paragraphs,               \* parse_docx: the Paragraph Records emitted
    llm_call,                 \* LLM extraction: the last call, its response and outcome
    store,                    \* the hosted action-item database: its pages, oldest first
    run_no,                   \* batch runs over the agenda folder started so far
    entry,                    \* the entry point of the current run
    pc,                       \* "idle", "docs" (in the loop), "done" or "aborted" (it raised)
    docx_files,               \* glob(AGENDA_FOLDER/*.docx) of the current run
    doc_idx,                  \* documents taken from docx_files so far
    items,                    \* process_agenda_docs: the items of the current document
    item_idx,                 \* process_agenda_docs: items of it synced so far
    all_results,              \* process_agenda_docs: filename -> items, as [filename, items]
    created_count,            \* process_agenda_docs
    updated_count,            \* process_agenda_docs
    log,                      \* process_agenda_docs: the lines printed per document and item
    results_file,             \* RESULTS_FOLDER/action_items.json
    all_items,                \* extract_action_items_from_agendas: the flat list
    output_json,              \* extract_action_items_from_agendas: the file at output_json_path
    upsert,                   \* concurrent runs: each run's call of upsert_action_item
    last_op,                  \* re-sync: the last upsert or manual edit of a page
    walk_pc,                  \* walk_agendas_and_extract: "start", "docs", "returned", "raised"
    cat_idx,                  \* walker: category folders entered so far
    person_idx,               \* walker: person folders of the category entered (0: its own docs)
    doc_pos,                  \* walker: documents of the current folder processed so far
    by_folder,                \* walker: category -> folder -> entries, dicts as key/value lists
    all_items_flat,           \* walker
    doc_log,                  \* walker: per document read, the outcome printed
    listed,                   \* walker: the folders listed by list_children, in order
    walk_result,              \* walker: the value returned
    req,                      \* dashboard: each request's handler, its position and locals
    drive_agendas,            \* dashboard: DRIVE_AGENDAS_JSON
    emails,                   \* dashboard: EMAILS_JSON, the row of each email id
    drafts,                   \* dashboard: DRAFTS_JSON, oldest draft first
    pages,                    \* hosted email database: Status and Draft Status per message
    send_run,                 \* hosted path: the sending batch under way and its query result
    outbox,                   \* the replies sent through the mail provider, oldest first
    mail_sync,                \* dashboard: syncs of the emails file so far, and the last fetch
    flat_call,                \* readers of the results file: the last read and what it returned
    email_db,                 \* sync_emails: the pages of the hosted email database, oldest first
    sync_queue,               \* sync_emails: the fetched emails still to handle in the current run
    sync_log,                 \* sync_emails: per email handled, what the checks said and what was done
    watch_pages,              \* watch mode: per page, its drafting state and the seconds since its last edit
    seen_latest,              \* watch mode: last_seen equals the database's latest last_edited_time
    edits                     \* watch mode: edits made by the director so far

vId   == <<idlog>>
vDocx == <<doc_paragraphs, current_section_status, paragraphs>>
vLLM  == <<llm_call>>
vBatch == <<run_no, entry, pc, docx_files, doc_idx, items, item_idx, all_results,
            created_count, updated_count, log, results_file, all_items, output_json>>
vRace == <<upsert, last_op>>
vWalk == <<walk_pc, cat_idx, person_idx, doc_pos, by_folder, all_items_flat, doc_log,
           listed, walk_result>>
vPipe == <<store, run_no, entry, pc, docx_files, doc_idx, items, item_idx, all_results,
           created_count, updated_count, log, results_file, all_items, output_json>>
vDash == <<req, drive_agendas>>
vSend == <<emails, drafts, pages, send_run, outbox, mail_sync>>
vRest == <<flat_call, email_db, sync_queue, sync_log, watch_pages, seen_latest, edits>>
vars  == <<idlog, doc_paragraphs, current_section_status, paragraphs, llm_call,
           store, run_no, entry, pc, docx_files, doc_idx, items, item_idx, all_results,
           created_count, updated_count, log, results_file, all_items, output_json,
           upsert, last_op, walk_pc, cat_idx, person_idx, doc_pos, by_folder, all_items_flat,
           doc_log, listed, walk_result, req, drive_agendas,
           emails, drafts, pages, send_run, outbox, mail_sync, flat_call,
           email_db, sync_queue, sync_log, watch_pages, seen_latest, edits>>

(***************************************************************************)
(* Python string operations                                                *)
(***************************************************************************)
LowerLetters ==
    <<"a","b","c","d","e","f","g","h","i","j","k","l","m",
      "n","o","p","q","r","s","t","u","v","w","x","y","z">>
UpperLetters ==
    <<"A","B","C","D","E","F","G","H","I","J","K","L","M",
      "N","O","P","Q","R","S","T","U","V","W","X","Y","Z">>

IsSpace(c) == c \in {" ", "\n", "\t"}

\* str.upper / str.lower of one character, as tables over the ASCII letters
UpperOf ==
    [c \in {LowerLetters[i] : i \in 1..26} |->
        UpperLetters[CHOOSE i \in 1..26 : LowerLetters[i] = c]]
LowerOf ==
    [c \in {UpperLetters[i] : i \in 1..26} |->
        LowerLetters[CHOOSE i \in 1..26 : UpperLetters[i] = c]]

UpperChar(c) == IF c \in DOMAIN UpperOf THEN UpperOf[c] ELSE c

LowerChar(c) == IF c \in DOMAIN LowerOf THEN LowerOf[c] ELSE c

Upper(s) == [i \in 1..Len(s) |-> UpperChar(s[i])]
Lower(s) == [i \in 1..Len(s) |-> LowerChar(s[i])]

RECURSIVE LStrip(_)
LStrip(s) == IF s # <<>> /\ IsSpace(Head(s)) THEN LStrip(Tail(s)) ELSE s

RECURSIVE RStrip(_)
RStrip(s) ==
    IF s # <<>> /\ IsSpace(s[Len(s)]) THEN RStrip(SubSeq(s, 1, Len(s) - 1)) ELSE s

Strip(s) == RStrip(LStrip(s))

StartsWith(s, prefix) ==
    Len(prefix) <= Len(s) /\ SubSeq(s, 1, Len(prefix)) = prefix

\* s.upper().startswith(prefix), upper-casing only the characters compared
UpperStartsWith(s, prefix) ==
    Len(prefix) <= Len(s) /\ \A i \in 1..Len(prefix) : UpperChar(s[i]) = prefix[i]

Contains(s, sub) ==
    \E i \in 0..(Len(s) - Len(sub)) : SubSeq(s, i + 1, i + Len(sub)) = sub

\* str.find / str.rfind of one character: 0-based position, -1 when absent
Find(s, c) ==
    IF \E i \in 1..Len(s) : s[i] = c
    THEN (CHOOSE i \in 1..Len(s) : s[i] = c /\ \A j \in 1..(i - 1) : s[j] # c) - 1
    ELSE -1

RFind(s, c) ==
    IF \E i \in 1..Len(s) : s[i] = c
    THEN (CHOOSE i \in 1..Len(s) : s[i] = c /\ \A j \in (i + 1)..Len(s) : s[j] # c) - 1
    ELSE -1

\* str(n) of an integer
DigitChars == <<"0","1","2","3","4","5","6","7","8","9">>

RECURSIVE NatStr(_)
NatStr(n) ==
    IF n < 10 THEN <<DigitChars[n + 1]>>
    ELSE NatStr(n \div 10) \o <<DigitChars[(n % 10) + 1]>>

IntStr(n) == IF n < 0 THEN <<"-">> \o NatStr(0 - n) ELSE NatStr(n)

(***************************************************************************)
(* Python values: [type, v] with v the text of the value (str(value))      *)
(***************************************************************************)
Missing == [type |-> "missing", v |-> <<>>]
PyNone == [type |-> "none", v |-> <<>>]
PyStr(s) == [type |-> "str", v |-> s]
PyInt(n) == [type |-> "int", v |-> IntStr(n)]

\* bool(x) of a value
Truthy(x) ==
    CASE x.type = "none" -> FALSE
      [] x.type = "str" -> x.v # <<>>
      [] x.type = "int" -> x.v # <<"0">>
      [] OTHER -> FALSE

\* dict.get(key, default)
Get(item, key, default) == IF item[key].type = "missing" THEN default ELSE item[key]

(***************************************************************************)
(* External ID (extract_and_sync.py, make_external_id)                     *)
(***************************************************************************)
\* hashlib.sha256(...).hexdigest(): treated as collision-free, the digest
\* stands for the byte string that was hashed.
Sha256(base) == <<"sha256", base>>

make_external_id_IgnoresIndex(source_doc, paragraph_index, text) ==
    Sha256(source_doc \o <<":", ":">> \o <<"N", "A">> \o <<":", ":">> \o Strip(text))

make_external_id_ZeroIsMissing(source_doc, paragraph_index, text) ==
    Sha256(source_doc \o <<":", ":">>
           \o (IF Truthy(paragraph_index) THEN paragraph_index.v ELSE <<"N", "A">>)
           \o <<":", ":">> \o Strip(text))

make_external_id(source_doc, paragraph_index, text) ==
    Sha256(source_doc \o <<":", ":">>
           \o (IF paragraph_index.type # "none" THEN paragraph_index.v ELSE <<"N", "A">>)
           \o <<":", ":">> \o Strip(text))

MaxIdCalls == 2

IdDocs == { <<"a">>, <<"a", ":", ":", "1">> }
IdIndexes == { PyNone, PyInt(0), PyInt(1), PyInt(2), PyInt(10) }
IdTexts == { <<"x">>, <<"x", " ">>, <<"2", ":", ":", "x">>, <<"y">> }

\* one call of make_external_id
MakeId ==
    /\ Len(idlog) < MaxIdCalls
    /\ \E d \in IdDocs, i \in IdIndexes, t \in IdTexts :
         idlog' = Append(idlog, [source_doc |-> d, paragraph_index |-> i, text |-> t,
                                 external_id |-> make_external_id(d, i, t)])
    /\ UNCHANGED <<vDocx, vLLM, vPipe, vRace, vWalk, vDash, vSend, vRest>>

(***************************************************************************)
(* parse_docx (extract_and_sync.py)                                        *)
(*                                                                         *)
(* A paragraph of the document is its sequence of runs, each a text and    *)
(* the strike flag of its font; the paragraph's text is the runs' texts    *)
(* joined.  strike_ratio is recorded in thousandths (round(ratio, 3)).     *)
(***************************************************************************)
DONE_SECTION_PREFIXES ==
    << <<"D","O","N","E"," ","-">>, <<"D","O","N","E",":">>,
       <<"C","O","M","P","L","E","T","E","D"," ","-">>,
       <<"C","O","M","P","L","E","T","E","D",":">> >>

WORKING_SECTION_PREFIXES ==
    << <<"[","w","o","r","k","i","n","g"," ","o","n","]">>,
       <<"W","O","R","K","I","N","G"," ","O","N">>,
       <<"I","N"," ","P","R","O","G","R","E","S","S">>,
       <<"[","i","n"," ","p","r","o","g","r","e","s","s","]">> >>

NoSection == "None"

Rep(c, n) == [i \in 1..n |-> c]

Run(text, strike) == [text |-> text, strike |-> strike]

RECURSIVE ParagraphText(_)
ParagraphText(runs) ==
    IF runs = <<>> THEN <<>> ELSE Head(runs).text \o ParagraphText(Tail(runs))

\* lines 102-105: the section status after a paragraph with this text
SectionAfter_NoWorkingReset(section, text) ==
    LET stripped == Strip(text) IN
    IF \E k \in 1..Len(DONE_SECTION_PREFIXES) :
          UpperStartsWith(stripped, DONE_SECTION_PREFIXES[k])
    THEN "done"
    ELSE section

SectionAfter(section, text) ==
    LET stripped == Strip(text) IN
    IF \E k \in 1..Len(DONE_SECTION_PREFIXES) :
          UpperStartsWith(stripped, DONE_SECTION_PREFIXES[k])
    THEN "done"
    ELSE IF \E k \in 1..Len(WORKING_SECTION_PREFIXES) :
                UpperStartsWith(stripped, Upper(WORKING_SECTION_PREFIXES[k]))
         THEN "todo"
         ELSE section

\* lines 108-121: the sums over the runs with a non-empty text
RECURSIVE TotalChars(_)
TotalChars(runs) ==
    IF runs = <<>> THEN 0 ELSE Len(Head(runs).text) + TotalChars(Tail(runs))

RECURSIVE StrikeChars(_)
StrikeChars(runs) ==
    IF runs = <<>> THEN 0
    ELSE (IF Head(runs).strike THEN Len(Head(runs).text) ELSE 0) + StrikeChars(Tail(runs))

HasStrike(runs) == \E k \in 1..Len(runs) : runs[k].text # <<>> /\ runs[k].strike

\* round(strike_chars / total_chars, 3) in thousandths; 0.0 when total_chars = 0
StrikeRatioMilli(strike_chars, total_chars) ==
    IF total_chars = 0 THEN 0
    ELSE LET q == (1000 * strike_chars) \div total_chars
             r == (1000 * strike_chars) % total_chars
         IN  IF 2 * r < total_chars THEN q
             ELSE IF 2 * r > total_chars THEN q + 1
             ELSE IF q % 2 = 0 THEN q ELSE q + 1

StrikeDonePercent == 60

\* lines 129-134, on the unrounded ratio strike_chars / total_chars
StatusHint_StrictThreshold(section, has_strike, strike_chars, total_chars) ==
    IF section = "done" THEN "done"
    ELSE IF has_strike /\ total_chars # 0
            /\ 100 * strike_chars > StrikeDonePercent * total_chars THEN "done"
    ELSE "todo"

StatusHint(section, has_strike, strike_chars, total_chars) ==
    IF section = "done" THEN "done"
    ELSE IF has_strike /\ total_chars # 0
            /\ 100 * strike_chars >= StrikeDonePercent * total_chars THEN "done"
    ELSE "todo"

\* lines 139-147
ParagraphRecord(idx, text, runs, section) ==
    [ index |-> idx,
      text |-> text,
      has_strike |-> HasStrike(runs),
      strike_ratio |-> StrikeRatioMilli(StrikeChars(runs), TotalChars(runs)),
      section_status_hint |-> section,
      status_hint |-> StatusHint(section, HasStrike(runs), StrikeChars(runs), TotalChars(runs)) ]

MaxDocParagraphs == 4

DocxParagraphs ==
    { <<Run(<<"D","O","N","E"," ","-"," ","F","r","i">>, FALSE)>>,
      <<Run(<<"c","o","m","p","l","e","t","e","d",":">>, TRUE)>>,
      <<Run(<<"W","O","R","K","I","N","G"," ","O","N">>, FALSE)>>,
      <<Run(<<>>, TRUE), Run(<<"b","u","y"," ","m","i","l","k">>, FALSE)>>,
      <<Run(<<"a","b","c">>, TRUE), Run(<<"d">>, FALSE)>>,
      <<Run(<<"a","b","c">>, TRUE), Run(<<"d","e">>, FALSE)>>,
      <<Run(<<"a","b">>, TRUE), Run(<<"c","d","e">>, FALSE)>>,
      <<Run(Rep("s", 241), TRUE), Run(Rep("u", 161), FALSE)>>,
      <<Run(<<" "," ">>, TRUE)>> }

\* one iteration of the loop over doc.paragraphs (lines 95-147)
ParseParagraph ==
    /\ Len(doc_paragraphs) < MaxDocParagraphs
    /\ \E runs \in DocxParagraphs :
         LET idx == Len(doc_paragraphs)
             text == Strip(ParagraphText(runs))
             section == SectionAfter(current_section_status, text)
         IN  /\ doc_paragraphs' = Append(doc_paragraphs, runs)
             /\ IF text = <<>>
                THEN UNCHANGED <<current_section_status, paragraphs>>
                ELSE /\ current_section_status' = section
                     /\ paragraphs' = Append(paragraphs, ParagraphRecord(idx, text, runs, section))
    /\ UNCHANGED <<vId, vLLM, vPipe, vRace, vWalk, vDash, vSend, vRest>>

(***************************************************************************)
(* LLM extraction (extract_and_sync.py, extract_action_items_with_llm and  *)
(* extract_action_items_from_notes_text)                                   *)
(*                                                                         *)
(* A response is a sequence of characters in which "o" stands for one JSON *)
(* object literal, "[" "]" "," are themselves and "x" is any text that is  *)
(* no JSON.  What json.loads returns for an object literal is a dict: a    *)
(* record of the eight keys the code reads, a key absent from the dict     *)
(* being Missing.                                                          *)
(***************************************************************************)
Dict(text, owner, due_date, priority, status, context, paragraph_index) ==
    [ text |-> text, owner |-> owner, owner_email |-> Missing, due_date |-> due_date,
      priority |-> priority, status |-> status, context |-> context,
      paragraph_index |-> paragraph_index ]

EmptyDict == Dict(Missing, Missing, Missing, Missing, Missing, Missing, Missing)

ObjA ==
    Dict(PyStr(<<"a">>), PyStr(<<"N","i","c","k">>), PyStr(<<"2","0","2","6","-","0","1","-","0","9">>),
         PyStr(<<"h","i","g","h">>), PyStr(<<" ","D","o","n","e"," ">>), PyStr(<<"c">>), PyInt(7))

\* the text of ObjA with a trailing blank, at the same paragraph
ObjA2 ==
    Dict(PyStr(<<"a"," ">>), Missing, Missing,
         PyStr(<<"u","r","g","e","n","t">>), PyStr(<<"M","A","Y","B","E">>), Missing, PyInt(7))

ObjB == Dict(PyStr(<<"b">>), Missing, Missing, Missing, PyStr(<<>>), Missing, PyInt(0))

\* the dicts an object literal of a response may decode to
Objects ==
    { EmptyDict, ObjA, ObjA2, ObjB,
      Dict(PyStr(<<"b">>), PyNone, PyNone, PyNone, PyNone, PyNone, PyNone),
      Dict(PyStr(<<"c">>), Missing, Missing, PyStr(<<"l","o","w">>), PyInt(1), Missing, PyInt(1)),
      Dict(PyStr(<<"c">>), Missing, Missing, Missing, PyInt(0), Missing, Missing),
      Dict(Missing, Missing, Missing, Missing, PyStr(<<"t","o","d","o">>), Missing, PyInt(2)),
      Dict(PyStr(<<"d">>), Missing, Missing, Missing, PyStr(<<"D","O","N","E">>), Missing, PyInt(3)),
      Dict(PyStr(<<"d">>), Missing, Missing, Missing, PyStr(<<"d","o","n","e",".">>), Missing, PyInt(3)) }

\* ---- json.loads on the response's characters ----
RECURSIVE FirstTopComma(_, _, _)
FirstTopComma(s, i, depth) ==
    IF i > Len(s) THEN 0
    ELSE IF s[i] = "," /\ depth = 0 THEN i
    ELSE FirstTopComma(s, i + 1,
                       depth + (IF s[i] = "[" THEN 1 ELSE IF s[i] = "]" THEN -1 ELSE 0))

RECURSIVE IsJsonValue(_)
RECURSIVE IsJsonElements(_)
IsJsonValue(s) ==
    \/ s = <<"o">>
    \/ /\ Len(s) >= 2
       /\ s[1] = "[" /\ s[Len(s)] = "]"
       /\ \/ Len(s) = 2
          \/ IsJsonElements(SubSeq(s, 2, Len(s) - 1))

IsJsonElements(t) ==
    LET k == FirstTopComma(t, 1, 0) IN
    IF k = 0 THEN IsJsonValue(t)
    ELSE IsJsonValue(SubSeq(t, 1, k - 1)) /\ IsJsonElements(SubSeq(t, k + 1, Len(t)))

\* the kinds ("dict" or "list") of the elements of an array's inside
RECURSIVE ElementKinds(_)
ElementKinds(t) ==
    IF t = <<>> THEN <<>>
    ELSE LET k == FirstTopComma(t, 1, 0)
             first == IF k = 0 THEN t ELSE SubSeq(t, 1, k - 1)
         IN  <<IF first = <<"o">> THEN "dict" ELSE "list">>
             \o (IF k = 0 THEN <<>> ELSE ElementKinds(SubSeq(t, k + 1, Len(t))))

\* json.loads(s): ok = FALSE is JSONDecodeError; else the value's type and, for
\* an array, the kinds of its elements
JsonLoads(s) ==
    IF ~IsJsonValue(s) THEN [ok |-> FALSE, type |-> "", kinds |-> <<>>]
    ELSE IF s = <<"o">> THEN [ok |-> TRUE, type |-> "dict", kinds |-> <<>>]
    ELSE [ok |-> TRUE, type |-> "list", kinds |-> ElementKinds(SubSeq(s, 2, Len(s) - 1))]

\* lines 247-255 and 286-294: the parse policy.  step is "strict", "salvage",
\* "decode_error" (the second json.loads raised) or "no_array".
ParseResponse(raw) ==
    LET strict == JsonLoads(raw)
        start == Find(raw, "[")
        end == RFind(raw, "]")
    IN  IF strict.ok THEN [step |-> "strict", value |-> strict]
        ELSE IF start # -1 /\ end # -1 /\ end > start
        THEN LET sub == JsonLoads(SubSeq(raw, start + 1, end + 1)) IN
             IF sub.ok THEN [step |-> "salvage", value |-> sub]
             ELSE [step |-> "decode_error", value |-> sub]
        ELSE [step |-> "no_array", value |-> strict]

\* ---- normalisation (lines 258-274 and 295-310) ----
\* lines 260-262: "raise" is the AttributeError of .strip() on a value that is no str
NormalizeStatus_NoTrim(item) ==
    LET s == Get(item, "status", PyNone) IN
    IF ~Truthy(s) THEN "todo"
    ELSE IF s.type # "str" THEN "raise"
    ELSE IF Lower(s.v) = <<"d","o","n","e">> THEN "done"
    ELSE "todo"

NormalizeStatus(item) ==
    LET s == Get(item, "status", PyNone) IN
    IF ~Truthy(s) THEN "todo"
    ELSE IF s.type # "str" THEN "raise"
    ELSE IF Lower(Strip(s.v)) = <<"d","o","n","e">> THEN "done"
    ELSE "todo"

\* lines 264-273 / 300-309; default_index is None on the document path and the
\* item's position on the free-form path
NormalizeItem(item, default_index) ==
    [ text |-> IF Truthy(Get(item, "text", PyNone)) THEN Get(item, "text", PyNone) ELSE PyStr(<<>>),
      owner |-> Get(item, "owner", PyNone),
      owner_email |-> Get(item, "owner_email", PyNone),
      due_date |-> Get(item, "due_date", PyNone),
      priority |-> Get(item, "priority", PyStr(<<"m","e","d","i","u","m">>)),
      status |-> NormalizeStatus(item),
      context |-> Get(item, "context", PyNone),
      paragraph_index |-> Get(item, "paragraph_index", default_index) ]

\* the loop over parsed: elements is a sequence of [kind, obj]; an element that
\* is no dict, or a status that is no str, raises AttributeError
NormalizeAll(elements, path) ==
    IF \E i \in 1..Len(elements) :
          elements[i].kind # "dict" \/ NormalizeStatus(elements[i].obj) = "raise"
    THEN [kind |-> "raise", error |-> "AttributeError", items |-> <<>>]
    ELSE [kind |-> "ok", error |-> "",
          items |-> [i \in 1..Len(elements) |->
                       NormalizeItem(elements[i].obj,
                                     IF path = "notes" THEN PyInt(i - 1) ELSE PyNone)]]

\* what a parse that found no array does: lines 255 and 294
NoArrayOutcome(path) ==
    IF path = "document"
    THEN [kind |-> "raise", error |-> "ValueError", items |-> <<>>]
    ELSE [kind |-> "ok", error |-> "", items |-> <<>>]

\* the decoded elements a parsed array may stand for
ElementsOf(kinds) ==
    { e \in [1..Len(kinds) -> [kind : {"dict", "list"}, obj : Objects]] :
        \A i \in 1..Len(kinds) :
            /\ e[i].kind = kinds[i]
            /\ kinds[i] = "list" => e[i].obj = EmptyDict }

MaxRawLen == 5

RawChars == {"[", "]", ",", "x", "o"}

RawResponses == UNION { [1..n -> RawChars] : n \in 0..MaxRawLen }

NoCall ==
    [ path |-> "none", notes |-> <<>>, llm_called |-> FALSE, raw |-> <<>>, step |-> "",
      parsed |-> <<>>, outcome |-> [kind |-> "none", error |-> "", items |-> <<>>] ]

\* parsing and normalising the response raw on one of the two paths
Extracted(path, notes, raw) ==
    LET p == ParseResponse(raw) IN
    IF p.step = "decode_error"
    THEN { [path |-> path, notes |-> notes, llm_called |-> TRUE, raw |-> raw, step |-> p.step,
            parsed |-> <<>>,
            outcome |-> [kind |-> "raise", error |-> "JSONDecodeError", items |-> <<>>]] }
    ELSE IF p.step = "no_array"
    THEN { [path |-> path, notes |-> notes, llm_called |-> TRUE, raw |-> raw, step |-> p.step,
            parsed |-> <<>>, outcome |-> NoArrayOutcome(path)] }
    ELSE IF p.value.type = "dict"
    \* iterating a dict yields its keys, which are str: .get raises unless it is empty
    THEN { [path |-> path, notes |-> notes, llm_called |-> TRUE, raw |-> raw, step |-> p.step,
            parsed |-> <<>>,
            outcome |-> [kind |-> "raise", error |-> "AttributeError", items |-> <<>>]],
           [path |-> path, notes |-> notes, llm_called |-> TRUE, raw |-> raw, step |-> p.step,
            parsed |-> <<>>, outcome |-> [kind |-> "ok", error |-> "", items |-> <<>>]] }
    ELSE { [path |-> path, notes |-> notes, llm_called |-> TRUE, raw |-> raw, step |-> p.step,
            parsed |-> e, outcome |-> NormalizeAll(e, path)] : e \in ElementsOf(p.value.kinds) }

\* extract_action_items_with_llm(meeting_text), lines 242-274
ExtractWithLLM ==
    /\ llm_call = NoCall
    /\ \/ \E raw \in RawResponses : llm_call' \in Extracted("document", <<"n">>, raw)
       \/ llm_call' = [NoCall EXCEPT !.path = "document", !.notes = <<"n">>, !.llm_called = TRUE,
                         !.outcome = [kind |-> "raise", error |-> "HTTPError", items |-> <<>>]]
    /\ UNCHANGED <<vId, vDocx, vPipe, vRace, vWalk, vDash, vSend, vRest>>

\* line 282: not (meeting_notes or meeting_notes.strip())
NotesBlank(notes) == ~(notes # <<>> \/ Strip(notes) # <<>>)

NotesInputs == { <<>>, <<" ">>, <<"n">> }

\* extract_action_items_from_notes_text(meeting_notes), lines 277-310
ExtractFromNotes ==
    /\ llm_call = NoCall
    /\ \E notes \in NotesInputs :
         IF NotesBlank(notes)
         THEN llm_call' = [NoCall EXCEPT !.path = "notes", !.notes = notes,
                             !.outcome = [kind |-> "ok", error |-> "", items |-> <<>>]]
         ELSE \/ \E raw \in RawResponses : llm_call' \in Extracted("notes", notes, raw)
              \/ llm_call' = [NoCall EXCEPT !.path = "notes", !.notes = notes, !.llm_called = TRUE,
                                !.outcome = [kind |-> "raise", error |-> "HTTPError", items |-> <<>>]]
    /\ UNCHANGED <<vId, vDocx, vPipe, vRace, vWalk, vDash, vSend, vRest>>

(***************************************************************************)
(* The hosted store and the upsert (extract_and_sync.py, lines 416-540)    *)
(*                                                                         *)
(* A page is [id, props, created_run]; props holds the seven properties    *)
(* the code writes, Missing for one the page was never given.  created_run *)
(* records the run that created the page.                                  *)
(***************************************************************************)
DEFAULT_STATUS == <<"T","o"," ","d","o">>

\* PERSON_TO_NOTION_ID: lower-cased name -> Notion user id
PERSON_TO_NOTION_ID(name) ==
    IF name = <<"n","i","c","k">> THEN PyStr(<<"u","1">>) ELSE PyNone

\* map_owner_to_notion_id, lines 425-428
map_owner_to_notion_id(owner_name) ==
    IF ~Truthy(owner_name) THEN PyNone ELSE PERSON_TO_NOTION_ID(Lower(Strip(owner_name.v)))

\* dateparser.parse(str(due)) then .date().isoformat(); an ISO date parses to
\* itself and a string that does not parse is stored as it is (lines 506-512)
DueDateStart(due) == PyStr(due.v)

\* build_notion_properties, lines 474-519
build_notion_properties(ai_item, source_doc, external_id) ==
    [ Name |-> IF Truthy(ai_item.text) THEN ai_item.text
               ELSE PyStr(<<"A","c","t","i","o","n"," ","i","t","e","m">>),
      Status |-> IF ai_item.status = "done" THEN PyStr(<<"D","o","n","e">>)
                 ELSE PyStr(DEFAULT_STATUS),
      Context |-> IF Truthy(ai_item.context) THEN ai_item.context ELSE PyStr(<<>>),
      ExternalID |-> PyStr(external_id),
      ParagraphIndex |-> IF ai_item.paragraph_index.type # "none"
                         THEN ai_item.paragraph_index ELSE Missing,
      Due |-> IF Truthy(ai_item.due_date) THEN DueDateStart(ai_item.due_date) ELSE Missing,
      Assignee |-> IF Truthy(map_owner_to_notion_id(ai_item.owner))
                   THEN map_owner_to_notion_id(ai_item.owner) ELSE Missing ]

\* notion_query_by_external_id, lines 438-456: the ids of the pages whose
\* External ID equals external_id; the code takes results[0]
QueryResults(db, external_id) ==
    { k \in 1..Len(db) : db[k].props.ExternalID = PyStr(external_id) }

notion_query_by_external_id_FindsNothing(db, external_id) == {}

notion_query_by_external_id(db, external_id) == QueryResults(db, external_id)

\* notion_update_page, lines 466-472: PATCH overwrites the properties sent
notion_update_page(db, page_id, props) ==
    [db EXCEPT ![page_id].props =
        [k \in DOMAIN props |-> IF props[k].type = "missing" THEN @[k] ELSE props[k]]]

\* notion_create_page, lines 458-464
notion_create_page(db, props, run) ==
    Append(db, [id |-> Len(db) + 1, props |-> props, created_run |-> run])

\* a run that creates a page for an item that has one already
upsert_action_item_AlwaysCreates(db, existing_page_id, props, run) ==
    notion_create_page(db, props, run)

\* upsert_action_item, lines 534-540: the store after the write;
\* existing_page_id is 0 for None
upsert_action_item(db, existing_page_id, props, run) ==
    IF existing_page_id # 0
    THEN notion_update_page(db, existing_page_id, props)
    ELSE notion_create_page(db, props, run)

\* the item's External ID as upsert_action_item computes it (lines 526-530)
ItemExternalId(ai_item, source_doc) ==
    make_external_id(source_doc, ai_item.paragraph_index, ai_item.text.v)

(***************************************************************************)
(* process_agenda_docs (lines 560-611)                                     *)
(***************************************************************************)
MaxRuns == 2

AgendaFiles == << <<"a",".","d","o","c","x">>, <<"b",".","d","o","c","x">> >>

\* what extract_action_items_from_single_docx may give for a document: the
\* normalized objects of the LLM's array, or an exception
DocElementLists ==
    { << [kind |-> "dict", obj |-> ObjA], [kind |-> "dict", obj |-> ObjA2] >>,
      << [kind |-> "dict", obj |-> ObjA], [kind |-> "dict", obj |-> ObjB] >> }

ExtractionFailed == [kind |-> "raise", error |-> "Exception", items |-> <<>>]

DocOutcomes ==
    {ExtractionFailed} \cup { NormalizeAll(e, "document") : e \in DocElementLists }

\* lines 561-574: a run starts; with no .docx in the folder it returns at once
StartRun ==
    /\ pc \in {"idle", "done", "aborted"}
    /\ run_no < MaxRuns
    /\ run_no' = run_no + 1
    /\ entry' = "process_agenda_docs"
    /\ \E files \in {<<>>, AgendaFiles} :
         /\ docx_files' = files
         /\ pc' = IF files = <<>> THEN "done" ELSE "docs"
    /\ doc_idx' = 0
    /\ items' = <<>>
    /\ item_idx' = 0
    /\ all_results' = <<>>
    /\ created_count' = 0
    /\ updated_count' = 0
    /\ log' = <<>>
    /\ UNCHANGED <<store, results_file, all_items, output_json, vId, vDocx, vLLM, vRace, vWalk, vDash, vSend, vRest>>

\* lines 576-588: the next document is extracted; a failure leaves [] for it
ExtractDoc ==
    /\ entry = "process_agenda_docs"
    /\ pc = "docs"
    /\ item_idx = Len(items)
    /\ doc_idx < Len(docx_files)
    /\ \E out \in DocOutcomes :
         LET filename == docx_files[doc_idx + 1] IN
         /\ items' = (IF out.kind = "raise" THEN <<>> ELSE out.items)
         /\ all_results' = Append(all_results,
                                  [filename |-> filename,
                                   items |-> IF out.kind = "raise" THEN <<>> ELSE out.items])
         /\ log' = (IF out.kind = "raise"
                    THEN Append(log, [filename |-> filename, external_id |-> <<>>,
                                      action |-> "extract_failed", page_id |-> 0])
                    ELSE log)
    /\ doc_idx' = doc_idx + 1
    /\ item_idx' = 0
    /\ UNCHANGED <<store, run_no, entry, pc, docx_files, created_count, updated_count,
                   results_file, all_items, output_json, vId, vDocx, vLLM, vRace, vWalk, vDash, vSend, vRest>>

\* lines 591-603: one item is synced.  Any of the requests may fail, which the
\* handler catches; otherwise the item is looked up (line 594), upserted
\* (upsert_action_item, lines 526-540) and counted.
SyncItem ==
    /\ entry = "process_agenda_docs"
    /\ pc = "docs"
    /\ item_idx < Len(items)
    /\ item_idx' = item_idx + 1
    /\ LET item == items[item_idx + 1]
           filename == docx_files[doc_idx]
           external_id == ItemExternalId(item, filename)
           existing == notion_query_by_external_id(store, external_id)
           props == build_notion_properties(item, filename, external_id)
       IN  \/ /\ existing # {}
              /\ \E page_id \in existing :
                   /\ store' = upsert_action_item(store, page_id, props, run_no)
                   /\ log' = Append(log, [filename |-> filename, external_id |-> external_id,
                                          action |-> "updated", page_id |-> page_id])
              /\ updated_count' = updated_count + 1
              /\ UNCHANGED created_count
           \/ /\ existing = {}
              /\ store' = upsert_action_item(store, 0, props, run_no)
              /\ log' = Append(log, [filename |-> filename, external_id |-> external_id,
                                     action |-> "created", page_id |-> Len(store) + 1])
              /\ created_count' = created_count + 1
              /\ UNCHANGED updated_count
           \/ /\ log' = Append(log, [filename |-> filename, external_id |-> external_id,
                                     action |-> "failed", page_id |-> 0])
              /\ UNCHANGED <<store, created_count, updated_count>>
    /\ UNCHANGED <<run_no, entry, pc, docx_files, doc_idx, items, all_results, results_file,
                   all_items, output_json, vId, vDocx, vLLM, vRace, vWalk, vDash, vSend, vRest>>

\* lines 605-611: the results file is written and the summary printed
FinishRun ==
    /\ entry = "process_agenda_docs"
    /\ pc = "docs"
    /\ doc_idx = Len(docx_files)
    /\ item_idx = Len(items)
    /\ results_file' = all_results
    /\ pc' = "done"
    /\ UNCHANGED <<store, run_no, entry, docx_files, doc_idx, items, item_idx, all_results,
                   created_count, updated_count, log, all_items, output_json,
                   vId, vDocx, vLLM, vRace, vWalk, vDash, vSend, vRest>>

\* line 611: the counts of the summary line, "N created, M updated"
SummaryCounts == <<created_count, updated_count>>

(***************************************************************************)
(* extract_action_items_from_agendas (lines 625-647)                       *)
(***************************************************************************)
\* lines 630-640: the run starts
StartExtract ==
    /\ pc \in {"idle", "done", "aborted"}
    /\ run_no < MaxRuns
    /\ run_no' = run_no + 1
    /\ entry' = "extract_action_items_from_agendas"
    /\ \E files \in {<<>>, AgendaFiles} : docx_files' = files
    /\ pc' = "docs"
    /\ doc_idx' = 0
    /\ all_items' = <<>>
    /\ UNCHANGED <<store, items, item_idx, all_results, created_count, updated_count, log,
                   results_file, output_json, vId, vDocx, vLLM, vRace, vWalk, vDash, vSend, vRest>>

\* lines 641-643: the next document is extracted, outside any try: an
\* exception of the extraction leaves the function
ExtractNext ==
    /\ entry = "extract_action_items_from_agendas"
    /\ pc = "docs"
    /\ doc_idx < Len(docx_files)
    /\ doc_idx' = doc_idx + 1
    /\ \E out \in DocOutcomes :
         IF out.kind = "raise"
         THEN pc' = "aborted" /\ UNCHANGED all_items
         ELSE pc' = pc /\ all_items' = all_items \o out.items
    /\ UNCHANGED <<store, run_no, entry, docx_files, items, item_idx, all_results,
                   created_count, updated_count, log, results_file, output_json,
                   vId, vDocx, vLLM, vRace, vWalk, vDash, vSend, vRest>>

\* lines 644-647: the flat list replaces the file's content
WriteOutput ==
    /\ entry = "extract_action_items_from_agendas"
    /\ pc = "docs"
    /\ doc_idx = Len(docx_files)
    /\ output_json' = all_items
    /\ pc' = "done"
    /\ UNCHANGED <<store, run_no, entry, docx_files, doc_idx, items, item_idx, all_results,
                   created_count, updated_count, log, results_file, all_items,
                   vId, vDocx, vLLM, vRace, vWalk, vDash, vSend, vRest>>

(***************************************************************************)
(* Two runs upserting at once (upsert_action_item, lines 521-540)          *)
(*                                                                         *)
(* Each run is at a call of upsert_action_item: the query of line 532 and   *)
(* the write of lines 534-540 are two requests, and the other run's        *)
(* requests may come between them.                                         *)
(***************************************************************************)
RaceRuns == {1, 2}

RaceDoc == AgendaFiles[1]

\* the items the two runs upsert: those of one document
RaceItems ==
    { NormalizeItem(ObjA, PyNone), NormalizeItem(ObjA2, PyNone), NormalizeItem(ObjB, PyNone) }

NoUpsert == [pc |-> "idle", external_id |-> <<>>, existing_page_id |-> 0, props |-> <<>>]

\* lines 526-533: the External ID, the query and the properties
UpsertQuery(r) ==
    /\ upsert[r].pc = "idle"
    /\ \E ai_item \in RaceItems :
         LET external_id == ItemExternalId(ai_item, RaceDoc)
             results == notion_query_by_external_id(store, external_id)
         IN  \E page_id \in (IF results = {} THEN {0} ELSE results) :
               upsert' = [upsert EXCEPT ![r] =
                            [pc |-> "queried",
                             external_id |-> external_id,
                             existing_page_id |-> page_id,
                             props |-> build_notion_properties(ai_item, RaceDoc, external_id)]]
    /\ UNCHANGED <<last_op, store, vBatch, vId, vDocx, vLLM, vWalk, vDash, vSend, vRest>>

\* lines 535-540: the update or the create, on what the query returned
UpsertWrite(r) ==
    /\ upsert[r].pc = "queried"
    /\ store' = upsert_action_item(store, upsert[r].existing_page_id, upsert[r].props, r)
    /\ upsert' = [upsert EXCEPT ![r] = NoUpsert]
    /\ UNCHANGED <<last_op, vBatch, vId, vDocx, vLLM, vWalk, vDash, vSend, vRest>>

(***************************************************************************)
(* Re-syncs of a store that people also edit by hand                       *)
(* (upsert_action_item, lines 521-540)                                     *)
(***************************************************************************)
NoOp == [kind |-> "none", page_id |-> 0, props |-> <<>>]

\* what a person may set by hand on a page, per property
ManualValues ==
    [ Status |-> PyStr(<<"B","l","o","c","k","e","d">>),
      Due |-> PyStr(<<"2","0","2","7","-","0","1","-","0","1">>),
      Assignee |-> PyStr(<<"u","2">>) ]

\* a person edits one property of a page in the hosted store
ManualEdit ==
    /\ \E page_id \in 1..Len(store) :
       \E field \in DOMAIN ManualValues :
         /\ store[page_id].props[field] # ManualValues[field]
         /\ store' = [store EXCEPT ![page_id].props[field] = ManualValues[field]]
         /\ last_op' = [kind |-> "edit", page_id |-> page_id, props |-> <<>>]
    /\ UNCHANGED <<upsert, vBatch, vId, vDocx, vLLM, vWalk, vDash, vSend, vRest>>

\* upsert_action_item(database_id, ai_item, source_doc), lines 521-540, as one
\* call; last_op.page_id is the id it returns
Resync ==
    /\ \E ai_item \in RaceItems :
         LET external_id == ItemExternalId(ai_item, RaceDoc)
             results == notion_query_by_external_id(store, external_id)
             props == build_notion_properties(ai_item, RaceDoc, external_id)
         IN  \E existing_page_id \in (IF results = {} THEN {0} ELSE results) :
               /\ store' = upsert_action_item(store, existing_page_id, props, 1)
               /\ last_op' = [kind |-> IF existing_page_id # 0 THEN "updated" ELSE "created",
                              page_id |-> IF existing_page_id # 0 THEN existing_page_id
                                          ELSE Len(store) + 1,
                              props |-> props]
    /\ UNCHANGED <<upsert, vBatch, vId, vDocx, vLLM, vWalk, vDash, vSend, vRest>>

(***************************************************************************)
(* The Drive walker (drive_agendas.py, lines 138-286)                      *)
(*                                                                         *)
(* A Python dict is a sequence of [key, value] in insertion order.         *)
(***************************************************************************)
MIME_GOOGLE_DOC == "application/vnd.google-apps.document"
MIME_FOLDER == "application/vnd.google-apps.folder"
MIME_DOCX == "application/vnd.openxmlformats-officedocument.wordprocessingml.document"
MIME_PDF == "application/pdf"

HasKey(d, key) == \E i \in 1..Len(d) : d[i].key = key

DictGet(d, key) == d[CHOOSE i \in 1..Len(d) : d[i].key = key].value

\* d[key] = value
DictSet(d, key, value) ==
    IF HasKey(d, key)
    THEN [i \in 1..Len(d) |-> IF d[i].key = key THEN [key |-> key, value |-> value] ELSE d[i]]
    ELSE Append(d, [key |-> key, value |-> value])

File(id, name, mimeType, children) ==
    [id |-> id, name |-> name, mimeType |-> mimeType, children |-> children]

\* GOOGLE_DRIVE_AGENDAS_FOLDER_ID
ROOT_FOLDER_ID == "root"

\* the children of the root Agendas folder, as files.list returns them
DriveRoot ==
    << File("f1", <<"*","*","A","r","c","h","i","v","e">>, MIME_FOLDER,
            << File("d0", <<"2","0","2","6"," ","z">>, MIME_GOOGLE_DOC, <<>>) >>),
       File("f2", <<"S","t","a","f","f">>, MIME_FOLDER,
            << File("d1", <<"2","0","2","6"," ","a">>, MIME_GOOGLE_DOC, <<>>),
               File("d2", <<"2","0","2","5","-","2","0","2","6"," ","b">>, MIME_GOOGLE_DOC, <<>>),
               File("d3", <<"c"," ","2","0","2","6">>, MIME_DOCX, <<>>),
               File("d4", <<"2","0","2","6"," ","p">>, MIME_PDF, <<>>),
               File("f3", <<"A","n","n">>, MIME_FOLDER,
                    << File("d5", <<"2","0","2","6"," ","d">>, MIME_GOOGLE_DOC, <<>>),
                       File("d6", <<"n","o","t","e","s">>, MIME_GOOGLE_DOC, <<>>),
                       File("d10", <<"2","0","2","6","-","2","0","2","5"," ","s">>, MIME_DOCX, <<>>),
                       File("d11", <<"2","0","2","5"," ","p">>, MIME_GOOGLE_DOC, <<>>),
                       File("f7", <<"s","u","b">>, MIME_FOLDER,
                            << File("d12", <<"2","0","2","6"," ","n">>, MIME_GOOGLE_DOC, <<>>) >>) >>),
               File("f4", <<"*","O","l","d"," ","A","R","C","H","I","V","E","D">>, MIME_FOLDER,
                    << File("d7", <<"2","0","2","6"," ","e">>, MIME_GOOGLE_DOC, <<>>) >>) >>),
       File("d8", <<"2","0","2","6"," ","r">>, MIME_GOOGLE_DOC, <<>>),
       File("f5", <<"P","r","o","j">>, MIME_FOLDER,
            << File("f6", <<"A","n","n">>, MIME_FOLDER,
                    << File("d9", <<"x","2","0","2","6">>, MIME_DOCX, <<>>) >>) >>) >>

\* a root_folder_id passed by the caller (line 157), and the children of that
\* folder: two category folders of one name, two subfolders of one name, and
\* a subfolder with the name of the direct-docs section
OTHER_FOLDER_ID == "other"

OtherRoot ==
    << File("g1", <<"S","t","a","f","f">>, MIME_FOLDER,
            << File("e1", <<"2","0","2","6"," ","a">>, MIME_GOOGLE_DOC, <<>>),
               File("g2", <<"A","n","n">>, MIME_FOLDER,
                    << File("e2", <<"2","0","2","6"," ","b">>, MIME_GOOGLE_DOC, <<>>) >>),
               File("g3", <<"A","n","n">>, MIME_FOLDER,
                    << File("e3", <<"2","0","2","6"," ","c">>, MIME_DOCX, <<>>) >>),
               File("g4", <<"T","h","i","s"," ","f","o","l","d","e","r">>, MIME_FOLDER,
                    << File("e4", <<"2","0","2","6"," ","d">>, MIME_GOOGLE_DOC, <<>>) >>) >>),
       File("g5", <<"S","t","a","f","f">>, MIME_FOLDER,
            << File("g6", <<"B","o","b">>, MIME_FOLDER,
                    << File("e5", <<"2","0","2","6"," ","e">>, MIME_GOOGLE_DOC, <<>>) >>) >>) >>

\* list_children(folder_id) of the root folder the walk was started on
RootChildren(folder_id) == IF folder_id = OTHER_FOLDER_ID THEN OtherRoot ELSE DriveRoot

\* _is_archived_folder comparing the name as it is written
is_archived_folder_CaseSensitive(name) ==
    LET n == Strip(name) IN
    /\ Contains(n, <<"a","r","c","h","i","v","e">>)
    /\ StartsWith(n, <<"*">>)

\* _is_archived_folder(name), lines 192-203
is_archived_folder(name) ==
    LET n == Lower(Strip(name)) IN
    IF name = <<>> THEN FALSE
    ELSE IF ~Contains(n, <<"a","r","c","h","i","v","e">>) THEN FALSE
    ELSE IF \/ StartsWith(n, <<"*","*">>)
            \/ StartsWith(n, <<"*","a","r","c","h","i","v","e">>)
            \/ Contains(n, <<"*","*","a","r","c","h","i","v","e">>)
         THEN TRUE
    ELSE StartsWith(n, <<"*">>) /\ Contains(n, <<"a","r","c","h","i","v","e">>)

IsFolder(c) == c.mimeType = MIME_FOLDER

IsLiveFolder(c) == IsFolder(c) /\ ~is_archived_folder(c.name)

IsDoc(c) == c.mimeType \in {MIME_GOOGLE_DOC, MIME_DOCX}

\* lines 244 and 264: "2026" in name and "2025" not in name
Is2026_Any2026(d) == Contains(d.name, <<"2","0","2","6">>)

Is2026(d) == Contains(d.name, <<"2","0","2","6">>) /\ ~Contains(d.name, <<"2","0","2","5">>)

IsDoc2026(c) == IsDoc(c) /\ Is2026(c)

\* line 205
category_folders ==
    SelectSeq(RootChildren(IF listed = <<>> THEN ROOT_FOLDER_ID ELSE listed[1]), IsLiveFolder)

\* lines 240 and 256, of category folder number c
person_subfolders(c) == SelectSeq(category_folders[c].children, IsLiveFolder)

\* a walk that takes no document from the category folder itself
direct_docs_2026_None(c) == <<>>

\* lines 241-244
direct_docs_2026(c) == SelectSeq(category_folders[c].children, IsDoc2026)

\* lines 262-264, of person folder number p of category folder number c
docs_2026(c, p) == SelectSeq(person_subfolders(c)[p].children, IsDoc2026)

SECTION_THIS_FOLDER == <<"T","h","i","s"," ","f","o","l","d","e","r">>

\* the fallback message of line 216
DEFAULT_READ_ERROR == <<"C","o","u","l","d"," ","n","o","t"," ","r","e","a","d">>

\* what get_doc_text / get_docx_text return: (text, error_str), lines 95-135
ReadOutcomes(mimeType) ==
    { [text |-> PyStr(<<"n">>), read_error |-> PyNone],
      [text |-> PyNone, read_error |-> PyNone],
      [text |-> PyNone, read_error |-> PyStr(<<"4","0","3">>)],
      [text |-> PyNone, read_error |-> PyStr(<<>>)] }
    \cup (IF mimeType = MIME_DOCX
          THEN {[text |-> PyNone, read_error |-> PyStr(<<"E","m","p","t","y"," ","f","i","l","e">>)]}
          ELSE {})

\* what extract_action_items_from_notes_text(text) does on a document's text:
\* its items, or the exception it raises with the text of str(e)
NotesExtractions ==
    { [kind |-> "raise", error |-> <<"H","T","T","P">>, items |-> <<>>],
      [kind |-> "raise", error |-> <<"E","x","p","e","c","t","i","n","g">>, items |-> <<>>],
      [kind |-> "ok", error |-> <<>>, items |-> <<>>],
      [kind |-> "ok", error |-> <<>>,
       items |-> NormalizeAll(<< [kind |-> "dict", obj |-> ObjA] >>, "notes").items],
      [kind |-> "ok", error |-> <<>>,
       items |-> NormalizeAll(<< [kind |-> "dict", obj |-> ObjB],
                                 [kind |-> "dict", obj |-> EmptyDict] >>, "notes").items] }

\* line 210
DocLink(file_id, mime_type) ==
    IF mime_type = MIME_GOOGLE_DOC THEN <<"docs.google.com/document/d", file_id, "edit">>
    ELSE <<"drive.google.com/file/d", file_id, "view">>

\* a tagging that names the category in place of the folder
Tagged_FolderIsCategory(it, category_name, person_folder_name, doc_name, doc_link) ==
    [ text |-> it.text, owner |-> it.owner, owner_email |-> it.owner_email,
      due_date |-> it.due_date, priority |-> it.priority, status |-> it.status,
      context |-> it.context, paragraph_index |-> it.paragraph_index,
      source_category |-> category_name, source_folder |-> category_name,
      source_doc |-> doc_name, doc_link |-> doc_link ]

\* lines 225-229: the four provenance keys set on an item
Tagged(it, category_name, person_folder_name, doc_name, doc_link) ==
    [ text |-> it.text, owner |-> it.owner, owner_email |-> it.owner_email,
      due_date |-> it.due_date, priority |-> it.priority, status |-> it.status,
      context |-> it.context, paragraph_index |-> it.paragraph_index,
      source_category |-> category_name, source_folder |-> person_folder_name,
      source_doc |-> doc_name, doc_link |-> doc_link ]

DocEntry(doc, its, error) ==
    [doc_name |-> doc.name, doc_id |-> doc.id, doc_link |-> DocLink(doc.id, doc.mimeType),
     items |-> its, error |-> error]

\* process_doc that passes the read error on as it is
process_doc_NoFallbackError(doc, category_name, person_folder_name, read, extraction) ==
    IF ~Truthy(read.text) THEN DocEntry(doc, <<>>, read.read_error)
    ELSE IF extraction.kind = "raise" THEN DocEntry(doc, <<>>, PyStr(extraction.error))
    ELSE DocEntry(doc,
                  [i \in 1..Len(extraction.items) |->
                     Tagged(extraction.items[i], category_name, person_folder_name,
                            doc.name, DocLink(doc.id, doc.mimeType))],
                  PyNone)

\* process_doc, lines 208-230, given what the read and the extraction do
process_doc(doc, category_name, person_folder_name, read, extraction) ==
    IF ~Truthy(read.text)
    THEN DocEntry(doc, <<>>,
                  IF Truthy(read.read_error) THEN read.read_error
                  ELSE PyStr(DEFAULT_READ_ERROR))
    ELSE IF extraction.kind = "raise" THEN DocEntry(doc, <<>>, PyStr(extraction.error))
    ELSE DocEntry(doc,
                  [i \in 1..Len(extraction.items) |->
                     Tagged(extraction.items[i], category_name, person_folder_name,
                            doc.name, DocLink(doc.id, doc.mimeType))],
                  PyNone)

\* the folder whose documents the walk is at, and its name in by_folder
CurrentDocs ==
    IF person_idx = 0 THEN direct_docs_2026(cat_idx) ELSE docs_2026(cat_idx, person_idx)

CurrentSection ==
    IF person_idx = 0 THEN SECTION_THIS_FOLDER ELSE person_subfolders(cat_idx)[person_idx].name

\* at the head of the loop over category_folders (line 233)
AtCategoryLoop ==
    \/ walk_pc = "categories"
    \/ /\ walk_pc = "docs"
       /\ doc_pos = Len(CurrentDocs)
       /\ person_idx = Len(person_subfolders(cat_idx))

NoResult ==
    [by_folder |-> <<>>, all_items_flat |-> <<>>, error |-> PyNone,
     stats |-> [category_folders |-> 0, total_docs_processed |-> 0]]

\* the early returns of lines 157-189
WalkErrors ==
    { <<"n","o","t"," ","s","e","t">>,
      <<"n","o","t"," ","c","o","n","n","e","c","t","e","d">>,
      <<"D","r","i","v","e"," ","A","P","I"," ","e","r","r","o","r">> }

RECURSIVE SumLen(_)
SumLen(seqs) == IF seqs = <<>> THEN 0 ELSE Len(Head(seqs).value) + SumLen(Tail(seqs))

\* lines 274-278
TotalDocs(bf) ==
    LET RECURSIVE Sum(_)
        Sum(d) == IF d = <<>> THEN 0 ELSE SumLen(Head(d).value) + Sum(Tail(d))
    IN  Sum(bf)

\* lines 157-205: the walk starts, or returns an error at once
WalkStartOn(folder_id) ==
    /\ walk_pc = "start"
    /\ \/ /\ walk_pc' = "categories"
          /\ listed' = Append(listed, folder_id)
          /\ UNCHANGED walk_result
       \/ /\ walk_pc' = "returned"
          /\ \E err \in WalkErrors : walk_result' = [NoResult EXCEPT !.error = PyStr(err)]
          /\ UNCHANGED listed
    /\ UNCHANGED <<cat_idx, person_idx, doc_pos, by_folder, all_items_flat, doc_log,
                   vId, vDocx, vLLM, vPipe, vRace, vDash, vSend, vRest>>

\* walk_agendas_and_extract(), on GOOGLE_DRIVE_AGENDAS_FOLDER_ID
WalkStart == WalkStartOn(ROOT_FOLDER_ID)

\* walk_agendas_and_extract(root_folder_id)
WalkStartOther == WalkStartOn(OTHER_FOLDER_ID)

\* lines 233-247: the next category folder is entered and listed; the listing
\* is in no try, so its failure leaves the walk
EnterCategory ==
    /\ AtCategoryLoop
    /\ cat_idx < Len(category_folders)
    /\ cat_idx' = cat_idx + 1
    /\ listed' = Append(listed, category_folders[cat_idx + 1].id)
    /\ LET category_name == category_folders[cat_idx + 1].name
           emptied == DictSet(by_folder, category_name, <<>>)
       IN  \/ /\ walk_pc' = "raised"
              /\ by_folder' = emptied
              /\ UNCHANGED <<person_idx, doc_pos>>
           \/ /\ walk_pc' = "docs"
              /\ person_idx' = 0
              /\ doc_pos' = 0
              /\ by_folder' =
                   IF direct_docs_2026(cat_idx + 1) # <<>>
                   THEN DictSet(emptied, category_name,
                                DictSet(<<>>, SECTION_THIS_FOLDER, <<>>))
                   ELSE emptied
    /\ UNCHANGED <<all_items_flat, doc_log, walk_result, vId, vDocx, vLLM, vPipe, vRace, vDash, vSend, vRest>>

\* lines 257-264: the next person folder of the category is entered and listed
EnterPerson ==
    /\ walk_pc = "docs"
    /\ doc_pos = Len(CurrentDocs)
    /\ person_idx < Len(person_subfolders(cat_idx))
    /\ person_idx' = person_idx + 1
    /\ listed' = Append(listed, person_subfolders(cat_idx)[person_idx + 1].id)
    /\ LET category_name == category_folders[cat_idx].name
           person_name == person_subfolders(cat_idx)[person_idx + 1].name
       IN  by_folder' = DictSet(by_folder, category_name,
                                DictSet(DictGet(by_folder, category_name), person_name, <<>>))
    /\ \/ walk_pc' = "raised" /\ UNCHANGED doc_pos
       \/ walk_pc' = "docs" /\ doc_pos' = 0
    /\ UNCHANGED <<cat_idx, all_items_flat, doc_log, walk_result,
                   vId, vDocx, vLLM, vPipe, vRace, vDash, vSend, vRest>>

\* lines 248-253 and 267-271: one document of the current folder
ProcessDoc ==
    /\ walk_pc = "docs"
    /\ doc_pos < Len(CurrentDocs)
    /\ doc_pos' = doc_pos + 1
    /\ LET doc == CurrentDocs[doc_pos + 1]
           category_name == category_folders[cat_idx].name
           section == DictGet(by_folder, category_name)
       IN  \E read \in ReadOutcomes(doc.mimeType) :
           \E extraction \in (IF Truthy(read.text) THEN NotesExtractions
                              ELSE {[kind |-> "none", error |-> <<>>, items |-> <<>>]}) :
             LET out == process_doc(doc, category_name, CurrentSection, read, extraction) IN
             /\ by_folder' =
                  DictSet(by_folder, category_name,
                          DictSet(section, CurrentSection,
                                  Append(DictGet(section, CurrentSection), out)))
             /\ all_items_flat' = all_items_flat \o out.items
             /\ doc_log' = Append(doc_log, [doc_id |-> doc.id, read |-> read,
                                            extraction |-> extraction])
    /\ UNCHANGED <<walk_pc, cat_idx, person_idx, listed, walk_result,
                   vId, vDocx, vLLM, vPipe, vRace, vDash, vSend, vRest>>

\* lines 273-285
WalkReturn ==
    /\ AtCategoryLoop
    /\ cat_idx = Len(category_folders)
    /\ walk_pc' = "returned"
    /\ walk_result' = [by_folder |-> by_folder, all_items_flat |-> all_items_flat,
                       error |-> PyNone,
                       stats |-> [category_folders |-> Len(category_folders),
                                  total_docs_processed |-> TotalDocs(by_folder)]]
    /\ UNCHANGED <<cat_idx, person_idx, doc_pos, by_folder, all_items_flat, doc_log, listed,
                   vId, vDocx, vLLM, vPipe, vRace, vDash, vSend, vRest>>

(***************************************************************************)
(* The dashboard's local action-items file (dashboard/app.py)              *)
(*                                                                         *)
(* output_json is ACTION_ITEMS_JSON, the path the dashboard and the        *)
(* pipeline pass to extract_action_items_from_agendas.  Each request is    *)
(* served by its own thread; a handler's reads and writes of the file are  *)
(* separate steps.                                                         *)
(***************************************************************************)
Requests == {1, 2}

\* the frame of the dashboard's handlers
DashFrame ==
    UNCHANGED <<store, run_no, entry, pc, docx_files, doc_idx, items, item_idx, all_results,
                created_count, updated_count, log, results_file, all_items,
                vId, vDocx, vLLM, vRace, vWalk, vSend, vRest>>

NoRequest ==
    [op |-> "none", pc |-> "idle", http |-> 0, loaded |-> <<>>, saved |-> FALSE,
     change |-> [kind |-> "none", items |-> <<>>, paragraph_index |-> PyNone],
     result |-> NoResult]

\* str(x) of a value
Str(x) == IF x.type = "none" THEN <<"N","o","n","e">> ELSE x.v

\* mark_action_item_done, lines 689-692: the loop over items
MarkDone(action_items, paragraph_index) ==
    [i \in 1..Len(action_items) |->
        IF Str(action_items[i].paragraph_index) = Str(paragraph_index)
        THEN [action_items[i] EXCEPT !.status = "done"]
        ELSE action_items[i]]

\* the list a handler holds after changing the list it loaded
Changed(action_items, change) ==
    IF change.kind = "extend" THEN action_items \o change.items
    ELSE MarkDone(action_items, change.paragraph_index)

\* a save that works on the file as it is at the time of the write
SavedContent_Current(loaded, current, change) == Changed(current, change)

\* what save_json writes: the list loaded earlier, changed (lines 424, 694, 928)
SavedContent(loaded, current, change) == Changed(loaded, change)

\* results of walk_agendas_and_extract a request may get: one with an error,
\* and those of a folder with one document
ImportResults ==
    { [NoResult EXCEPT !.error = PyStr(<<"D","r","i","v","e"," ","A","P","I"," ","e","r","r","o","r">>)] }
    \cup
    { LET doc == DriveRoot[2].children[1]
          out == process_doc(doc, DriveRoot[2].name, SECTION_THIS_FOLDER,
                             [text |-> PyStr(<<"n">>), read_error |-> PyNone], x)
      IN  [by_folder |-> DictSet(<<>>, DriveRoot[2].name,
                                 DictSet(<<>>, SECTION_THIS_FOLDER, <<out>>)),
           all_items_flat |-> out.items,
           error |-> PyNone,
           stats |-> [category_folders |-> 1, total_docs_processed |-> 1]] :
      x \in {n \in NotesExtractions : n.kind = "ok"} }

\* api_drive_agendas_extract, lines 403-420: the walk and the choice of merge
ImportWalk(r) ==
    /\ req[r].pc = "idle"
    /\ \E result \in ImportResults, merge \in BOOLEAN :
         req' = [req EXCEPT ![r] =
                   [NoRequest EXCEPT
                      !.op = "api_drive_agendas_extract",
                      !.result = result,
                      !.change = [kind |-> "extend", items |-> result.all_items_flat,
                                  paragraph_index |-> PyNone],
                      !.http = IF Truthy(result.error) THEN 400 ELSE 0,
                      !.pc = IF Truthy(result.error) THEN "done"
                             ELSE IF merge /\ result.all_items_flat # <<>> THEN "load"
                             ELSE "persist"]]
    /\ UNCHANGED <<output_json, drive_agendas>>
    /\ DashFrame

\* api_google_docs_extract_folder, lines 883-924: the items of the folder's
\* documents; a document that fails is passed over
FolderFetch(r) ==
    /\ req[r].pc = "idle"
    /\ \E x \in {n \in NotesExtractions : n.kind = "ok"} :
         req' = [req EXCEPT ![r] =
                   [NoRequest EXCEPT
                      !.op = "api_google_docs_extract_folder",
                      !.change = [kind |-> "extend", items |-> x.items,
                                  paragraph_index |-> PyNone],
                      !.pc = "load"]]
    /\ UNCHANGED <<output_json, drive_agendas>>
    /\ DashFrame

\* lines 423 and 926: action_items = load_json(ACTION_ITEMS_JSON)
LoadItems(r) ==
    /\ req[r].pc = "load"
    /\ req' = [req EXCEPT ![r].loaded = output_json, ![r].pc = "save"]
    /\ UNCHANGED <<output_json, drive_agendas>>
    /\ DashFrame

\* mark_action_item_done, lines 684-697, up to the save
MarkDoneLoad(r) ==
    /\ req[r].pc = "idle"
    /\ \E paragraph_index \in {PyInt(0), PyStr(<<"7">>), PyNone} :
         LET updated == \E i \in 1..Len(output_json) :
                           Str(output_json[i].paragraph_index) = Str(paragraph_index)
         IN  req' = [req EXCEPT ![r] =
                       [NoRequest EXCEPT
                          !.op = "mark_action_item_done",
                          !.loaded = output_json,
                          !.change = [kind |-> "mark", items |-> <<>>,
                                      paragraph_index |-> paragraph_index],
                          !.http = IF updated THEN 0 ELSE 404,
                          !.pc = IF updated THEN "save" ELSE "done"]]
    /\ UNCHANGED <<output_json, drive_agendas>>
    /\ DashFrame

\* lines 425, 694 and 929: save_json(ACTION_ITEMS_JSON, ...)
SaveItems(r) ==
    /\ req[r].pc = "save"
    /\ output_json' = SavedContent(req[r].loaded, output_json, req[r].change)
    /\ req' = [req EXCEPT
                 ![r].saved = TRUE,
                 ![r].pc = IF req[r].op = "api_drive_agendas_extract" THEN "persist" ELSE "done",
                 ![r].http = IF req[r].op = "api_drive_agendas_extract" THEN 0 ELSE 200]
    /\ UNCHANGED drive_agendas
    /\ DashFrame

\* api_drive_agendas_extract, lines 426-439: save_drive_agendas and the answer
ImportPersist(r) ==
    /\ req[r].pc = "persist"
    /\ drive_agendas' = [by_folder |-> req[r].result.by_folder, stats |-> req[r].result.stats]
    /\ req' = [req EXCEPT ![r].pc = "done", ![r].http = 200]
    /\ UNCHANGED output_json
    /\ DashFrame

\* what extract_action_items_from_agendas leaves in all_items when no
\* document of the folder fails
ExtractedLists ==
    {<<>>} \cup
    { o1.items \o o2.items : o1, o2 \in {o \in DocOutcomes : o.kind = "ok"} }

\* extract_action_items (POST /extract_action_items), lines 477-481: the call
\* of extract_action_items_from_agendas(ACTION_ITEMS_JSON), which writes the
\* file once, at its end, or raises
ExtractRoute(r) ==
    /\ req[r].pc = "idle"
    /\ \/ /\ req' = [req EXCEPT ![r] =
                       [NoRequest EXCEPT !.op = "extract_action_items", !.pc = "done",
                                         !.http = 500]]
          /\ UNCHANGED output_json
       \/ \E extracted \in ExtractedLists :
            /\ req' = [req EXCEPT ![r] =
                         [NoRequest EXCEPT
                            !.op = "extract_action_items", !.pc = "done", !.http = 200,
                            !.saved = TRUE,
                            !.change = [kind |-> "replace", items |-> extracted,
                                        paragraph_index |-> PyNone]]]
            /\ output_json' = extracted
    /\ UNCHANGED drive_agendas
    /\ DashFrame

(***************************************************************************)
(* Replies: drafts of the dashboard (dashboard/app.py, lines 498-680) and  *)
(* of the hosted email database (outlook/sync, outlook/utils)              *)
(***************************************************************************)
\* drafts written and replies sent in one behaviour
MaxReplies == 3

\* the message ids synced from the mailbox, and the ids a request may carry
SyncedIds == {"m1", "m2"}
MessageIds == SyncedIds \cup {"m3"}

\* sync_emails_to_json (sync_outlook_json.py, lines 18-31): the row of a fetched
\* email; _parse_message gives no reply_instruction, draft_status or
\* workflow_status, so the defaults are taken
NewEmail(id) ==
    [id |-> id, reply_instruction |-> "", draft_status |-> "new", workflow_status |-> "idle"]

\* lines 16-31: one row per fetched email, in fetch order
dashboard_emails_Merged(old, fetched) ==
    [i \in 1..Len(fetched) |->
        IF \E k \in 1..Len(old) : old[k].id = fetched[i]
        THEN old[CHOOSE k \in 1..Len(old) : old[k].id = fetched[i]]
        ELSE NewEmail(fetched[i])]

dashboard_emails(old, fetched) == [i \in 1..Len(fetched) |-> NewEmail(fetched[i])]

\* the unread mail of the first sync
InitialFetch == <<"m1", "m2">>

\* next((e for e in emails if e.get("id") == email_id), None): its index, 0 for None
EmailRow(es, email_id) ==
    IF \E i \in 1..Len(es) : es[i].id = email_id
    THEN CHOOSE i \in 1..Len(es) :
            /\ es[i].id = email_id
            /\ \A j \in 1..(i - 1) : es[j].id # email_id
    ELSE 0

\* the row of email_id with its two status fields set
SetEmail(es, email_id, draft_status, workflow_status) ==
    [es EXCEPT ![EmailRow(es, email_id)].draft_status = draft_status,
               ![EmailRow(es, email_id)].workflow_status = workflow_status]

\* create_email (utils_notion.py, lines 147-158): Status "New", no Draft Status
\* and no Draft Reply; draft numbers the Draft Reply texts saved for the page
NewPage == [Status |-> "New", DraftStatus |-> "", draft |-> 0]

NoSendRun == [path |-> "none", queue |-> <<>>]

\* the drafts written and the replies sent so far
ReplyWork ==
    LET RECURSIVE Saved(_)
        Saved(ids) == IF ids = {} THEN 0
                      ELSE LET m == CHOOSE x \in ids : TRUE
                           IN  pages[m].draft + Saved(ids \ {m})
    IN  Len(drafts) + Len(outbox) + Saved(SyncedIds)

\* next((d for d in drafts if d["email_id"] == email_id), None): its index, 0 for None
FirstDraft(ds, email_id) ==
    IF \E i \in 1..Len(ds) : ds[i].email_id = email_id
    THEN CHOOSE i \in 1..Len(ds) :
            /\ ds[i].email_id = email_id
            /\ \A j \in 1..(i - 1) : ds[j].email_id # email_id
    ELSE 0

\* emails_full (lines 448-452): drafts_map keeps the last draft of each email
\* as its latest; its index, 0 when the email has none
drafts_map(ds, email_id) ==
    IF \E i \in 1..Len(ds) : ds[i].email_id = email_id
    THEN CHOOSE i \in 1..Len(ds) :
            /\ ds[i].email_id = email_id
            /\ \A j \in (i + 1)..Len(ds) : ds[j].email_id # email_id
    ELSE 0

SendFrame ==
    UNCHANGED <<mail_sync, vId, vDocx, vLLM, vPipe, vRace, vWalk, vDash, vRest>>

\* line 509: email["reply_instruction"] = instruction
SetInstruction(es, email_id, instruction) ==
    [es EXCEPT ![EmailRow(es, email_id)].reply_instruction = instruction]

\* The replies of an installation are kept in one of the two backends: the
\* dashboard's JSON files or the hosted database.
LocalBackend == pages = [m \in SyncedIds |-> NewPage]
HostedBackend == drafts = <<>> /\ emails = dashboard_emails(<<>>, InitialFetch)

\* generate_draft (lines 498-546)
generate_draft ==
    /\ LocalBackend
    /\ ReplyWork < MaxReplies
    /\ \E email_id \in MessageIds :
         /\ EmailRow(emails, email_id) # 0
         /\ \/ /\ drafts' = Append(drafts, [email_id |-> email_id, draft |-> "reply",
                                            status |-> "Generated"])
               /\ emails' = SetInstruction(SetEmail(emails, email_id, "Generate Draft", "generated"),
                                            email_id, "instruction")
            \/ /\ emails' = SetInstruction(SetEmail(emails, email_id, "Generate Draft", "error"),
                                            email_id, "instruction")
               /\ UNCHANGED drafts
    /\ UNCHANGED <<pages, send_run, outbox>>
    /\ SendFrame

\* revise_draft (lines 548-599)
revise_draft ==
    /\ LocalBackend
    /\ ReplyWork < MaxReplies
    /\ \E email_id \in MessageIds :
         /\ EmailRow(emails, email_id) # 0
         /\ \/ /\ drafts' = Append(drafts, [email_id |-> email_id, draft |-> "revised reply",
                                            status |-> "Revised"])
               /\ emails' = SetEmail(emails, email_id, "Needs Revision", "revised")
            \/ /\ emails' = SetEmail(emails, email_id, "Needs Revision", "error")
               /\ UNCHANGED drafts
    /\ UNCHANGED <<pages, send_run, outbox>>
    /\ SendFrame

MaxMailSyncs == 1

\* fetch_unread_emails(): the unread mail of the inbox, newest first
FetchLists ==
    { f \in UNION { [1..n -> SyncedIds] : n \in 0..2 } :
        \A i, j \in 1..Len(f) : i # j => f[i] # f[j] }

\* POST /sync_emails (lines 471-475): sync_emails_to_json(EMAILS_JSON)
sync_emails_to_json ==
    /\ LocalBackend
    /\ mail_sync.count < MaxMailSyncs
    /\ \E fetched \in FetchLists :
         /\ emails' = dashboard_emails(emails, fetched)
         /\ mail_sync' = [count |-> mail_sync.count + 1, fetched |-> fetched]
    /\ UNCHANGED <<drafts, pages, send_run, outbox>>
    /\ UNCHANGED <<vId, vDocx, vLLM, vPipe, vRace, vWalk, vDash, vRest>>

\* the statuses the dashboard posts to /drafts/status
DraftStatusInputs == {"Approved", "Needs Revision"}

\* update_draft_status (lines 669-680)
update_draft_status ==
    /\ LocalBackend
    /\ \E email_id \in MessageIds, status \in DraftStatusInputs :
         drafts' = [i \in 1..Len(drafts) |->
                      IF drafts[i].email_id = email_id
                      THEN [drafts[i] EXCEPT !.status = status]
                      ELSE drafts[i]]
    /\ drafts' # drafts
    /\ UNCHANGED <<emails, pages, send_run, outbox>>
    /\ SendFrame

\* send_draft (lines 601-642): the first draft of the email is sent
send_draft ==
    /\ LocalBackend
    /\ ReplyWork < MaxReplies
    /\ \E email_id \in MessageIds :
         LET i == FirstDraft(drafts, email_id) IN
         /\ i # 0
         /\ EmailRow(emails, email_id) # 0
         /\ \/ /\ outbox' = Append(outbox, [path |-> "send_draft", message_id |-> email_id,
                                            body |-> drafts[i].draft,
                                            status |-> drafts[i].status])
               /\ drafts' = [drafts EXCEPT ![i].status = "Sent"]
               /\ emails' = SetEmail(emails, email_id, "Sent", "complete")
            \/ /\ emails' = [emails EXCEPT ![EmailRow(emails, email_id)].workflow_status = "error"]
               /\ UNCHANGED <<drafts, outbox>>
    /\ UNCHANGED <<pages, send_run>>
    /\ SendFrame

\* the director's edits of a page in the hosted database: the reply
\* instruction with Status "Pending Send", and the review of a draft
\* (main.py, lines 159-165)
SetPendingSend ==
    /\ HostedBackend
    /\ \E m \in SyncedIds :
         /\ pages[m].Status = "New"
         /\ pages' = [pages EXCEPT ![m].Status = "Pending Send"]
    /\ UNCHANGED <<emails, drafts, send_run, outbox>>
    /\ SendFrame

ReviewStatuses == {"Approved", "Needs Revision"}

ReviewDraft ==
    /\ HostedBackend
    /\ \E m \in SyncedIds, s \in ReviewStatuses :
         /\ pages[m].DraftStatus \in {"Pending Review", "Approved", "Needs Revision"}
         /\ pages[m].DraftStatus # s
         /\ pages' = [pages EXCEPT ![m].DraftStatus = s]
    /\ UNCHANGED <<emails, drafts, send_run, outbox>>
    /\ SendFrame

\* save_draft_reply, as called by process_draft_generation
\* (draft_replies.py, lines 149-174) for a page awaiting its reply
save_draft_reply(pgs, m) ==
    [pgs EXCEPT ![m].DraftStatus = "Pending Review", ![m].draft = pgs[m].draft + 1]

process_draft_generation ==
    /\ HostedBackend
    /\ \E m \in SyncedIds :
         /\ pages[m].Status = "Pending Send"
         /\ pages[m].DraftStatus \notin {"Pending Review", "Approved"}
         /\ ReplyWork < MaxReplies
         /\ pages' = save_draft_reply(pages, m)
    /\ UNCHANGED <<emails, drafts, send_run, outbox>>
    /\ SendFrame

\* the pages a query with a select filter returns, in the database's order
RECURSIVE QueryPages(_, _, _, _)
QueryPages(pgs, field, value, ids) ==
    IF ids = <<>> THEN <<>>
    ELSE (IF pgs[Head(ids)][field] = value THEN <<Head(ids)>> ELSE <<>>)
         \o QueryPages(pgs, field, value, Tail(ids))

PageOrder == <<"m1", "m2">>

\* get_approved_drafts: the pages whose Draft Status is "Approved"
get_approved_drafts(pgs) == QueryPages(pgs, "DraftStatus", "Approved", PageOrder)

\* get_pending_replies (utils_notion.py, lines 174-185)
get_pending_replies(pgs) == QueryPages(pgs, "Status", "Pending Send", PageOrder)

\* mark_draft_sent
mark_draft_sent(pgs, m) == [pgs EXCEPT ![m].DraftStatus = "Sent"]

\* update_notion_sent (utils_notion.py, lines 187-198)
update_notion_sent(pgs, m) == [pgs EXCEPT ![m].Status = "Sent"]

\* send_approved_replies, lines 62-68, and process_pending_replies, lines
\* 229-233: the query; with no page found the function returns
StartSendRun ==
    /\ HostedBackend
    /\ send_run.path = "none"
    /\ \E path \in {"send_approved_replies", "process_pending_replies"} :
         LET found == IF path = "send_approved_replies"
                      THEN get_approved_drafts(pages)
                      ELSE get_pending_replies(pages)
         IN  /\ found # <<>>
             /\ send_run' = [path |-> path,
                              queue |-> [i \in 1..Len(found) |->
                                           [id |-> found[i], draft |-> pages[found[i]].draft]]]
    /\ UNCHANGED <<emails, drafts, pages, outbox>>
    /\ SendFrame

\* the run after the page at the head of its queue
RestOfRun == IF Len(send_run.queue) = 1 THEN NoSendRun
             ELSE [send_run EXCEPT !.queue = Tail(send_run.queue)]

\* send_approved_replies, lines 70-89: the next page of the query's result.
\* send_reply or mark_draft_sent may raise, which the loop catches.
SendApprovedNext ==
    /\ HostedBackend
    /\ send_run.path = "send_approved_replies"
    /\ ReplyWork < MaxReplies
    /\ LET m == Head(send_run.queue).id IN
         \/ UNCHANGED <<pages, outbox>>
         \/ /\ outbox' = Append(outbox, [path |-> "send_approved_replies", message_id |-> m,
                                         body |-> [draft |-> Head(send_run.queue).draft],
                                         status |-> pages[m].DraftStatus])
            /\ \/ pages' = mark_draft_sent(pages, m)
               \/ UNCHANGED pages
    /\ send_run' = RestOfRun
    /\ UNCHANGED <<emails, drafts>>
    /\ SendFrame

\* process_pending_replies, lines 235-260: the next page.  fetch_message is
\* outside the try: when it raises, the run ends there.
SendPendingNext ==
    /\ HostedBackend
    /\ send_run.path = "process_pending_replies"
    /\ ReplyWork < MaxReplies
    /\ LET m == Head(send_run.queue).id IN
         \/ /\ send_run' = NoSendRun
            /\ UNCHANGED <<pages, outbox>>
         \/ /\ send_run' = RestOfRun
            /\ UNCHANGED <<pages, outbox>>
         \/ /\ send_run' = RestOfRun
            /\ outbox' = Append(outbox, [path |-> "process_pending_replies", message_id |-> m,
                                         body |-> "reply",
                                         status |-> pages[m].Status])
            /\ \/ pages' = update_notion_sent(pages, m)
               \/ UNCHANGED pages
    /\ UNCHANGED <<emails, drafts>>
    /\ SendFrame

(***************************************************************************)
(* Readers of the action-items results file (extract_and_sync.py, lines    *)
(* 613-623; dashboard/app.py, lines 35-52).  The decoded file is a JSON    *)
(* value: a dict (key/value pairs in the file's order), a list, or         *)
(* something else; a dict's value is a list of items or something else.    *)
(***************************************************************************)
MaxKeys == 2

ResultKeys == {"a.docx", "b.docx", "notes"}

FileItems == { NormalizeItem(ObjA, PyNone), NormalizeItem(ObjB, PyNone) }

JsonList(v) == [type |-> "list", v |-> v]
JsonDict(v) == [type |-> "dict", v |-> v]
JsonNull == [type |-> "null", v |-> <<>>]

ItemLists == UNION { [1..n -> FileItems] : n \in 0..2 }

\* what a key of the dict may map to
DictValues == { JsonList(l) : l \in ItemLists } \cup {JsonNull}

\* the dicts json.load may return: distinct keys, in the file's order
FileDicts ==
    { d \in UNION { [1..n -> [key : ResultKeys, value : DictValues]] : n \in 0..MaxKeys } :
        \A i, j \in 1..Len(d) : i # j => d[i].key # d[j].key }

FileData == { JsonDict(d) : d \in FileDicts } \cup { JsonList(l) : l \in ItemLists } \cup {JsonNull}

\* lines 617-623 and 35-42
RECURSIVE flatten_values_LastOnly(_)
flatten_values_LastOnly(entries) ==
    IF entries = <<>> THEN <<>>
    ELSE IF entries[Len(entries)].value.type = "list" THEN entries[Len(entries)].value.v
    ELSE flatten_values_LastOnly(SubSeq(entries, 1, Len(entries) - 1))

RECURSIVE flatten_values(_)
flatten_values(entries) ==
    IF entries = <<>> THEN <<>>
    ELSE (IF Head(entries).value.type = "list" THEN Head(entries).value.v ELSE <<>>)
         \o flatten_values(Tail(entries))

_flatten_action_items(data) ==
    IF data.type = "dict" THEN JsonList(flatten_values(data.v)) ELSE data

NoRead == [reader |-> "none", data |-> JsonNull, result |-> JsonNull, again |-> JsonNull]

\* flatten_action_items_json(json_path) or load_json(ACTION_ITEMS_JSON) on a
\* file, and a second pass of the reader over what the first returned
ReadResultsFile ==
    /\ flat_call = NoRead
    /\ \E reader \in {"flatten_action_items_json", "load_json"}, data \in FileData :
         flat_call' = [reader |-> reader, data |-> data,
                       result |-> _flatten_action_items(data),
                       again |-> _flatten_action_items(_flatten_action_items(data))]
    /\ UNCHANGED <<vId, vDocx, vLLM, vPipe, vRace, vWalk, vDash, vSend, email_db, sync_queue, sync_log,
                   watch_pages, seen_latest, edits>>

(***************************************************************************)
(* sync_emails (outlook/sync/sync_outlook_notion.py, lines 181-228) with   *)
(* is_email_already_synced (lines 162-178) and create_or_update_email      *)
(* (outlook/utils/utils_notion.py, lines 80-91 and 167-172)                *)
(***************************************************************************)
MaxSyncSteps == 4

\* fetch_unread_emails(): the message ids of the unread mail, in fetch order
UnreadLists == UNION { [1..n -> SyncedIds] : n \in 1..2 }

\* the pages a query by Message ID finds (lines 168-175; utils_notion.py 81-91)
PagesOfMessage(db, message_id) == { i \in 1..Len(db) : db[i].message_id = message_id }

\* is_email_already_synced: the query's answer, or False when the request fails
is_email_already_synced(db, message_id) ==
    { [check |-> IF PagesOfMessage(db, message_id) # {} THEN "found" ELSE "absent",
       synced |-> PagesOfMessage(db, message_id) # {}],
      [check |-> "failed", synced |-> FALSE] }

\* create_email (utils_notion.py, lines 123-165)
create_email(db, message_id) == Append(db, [message_id |-> message_id, Status |-> "New"])

\* create_or_update_email: an existing page is left alone, else one is created
create_or_update_email_NoLookup(db, message_id) == create_email(db, message_id)

create_or_update_email(db, message_id) ==
    IF PagesOfMessage(db, message_id) # {} THEN db ELSE create_email(db, message_id)

SyncFrame ==
    UNCHANGED <<vId, vDocx, vLLM, vPipe, vRace, vWalk, vDash, vSend, flat_call,
                watch_pages, seen_latest, edits>>

\* lines 185-191: the unread mail is fetched; with none the run returns
StartSync ==
    /\ sync_queue = <<>>
    /\ \E unread \in UnreadLists :
         /\ Len(sync_log) + Len(unread) <= MaxSyncSteps
         /\ sync_queue' = unread
    /\ UNCHANGED <<email_db, sync_log>>
    /\ SyncFrame

\* lines 198-226: one email of the loop.  The request of get_page_by_message_id
\* or of create_email may fail, which the loop catches; a failed create may
\* or may not have stored the page.
SyncEmail ==
    /\ sync_queue # <<>>
    /\ LET message_id == Head(sync_queue) IN
       \E first \in is_email_already_synced(email_db, message_id) :
         IF first.synced
         THEN /\ sync_log' = Append(sync_log, [message_id |-> message_id, check |-> first.check,
                                               action |-> "skipped"])
              /\ UNCHANGED email_db
         ELSE \/ /\ email_db' = create_or_update_email(email_db, message_id)
                 /\ sync_log' = Append(sync_log,
                                       [message_id |-> message_id, check |-> first.check,
                                        action |-> IF email_db' = email_db THEN "exists"
                                                   ELSE "created"])
              \/ /\ sync_log' = Append(sync_log, [message_id |-> message_id, check |-> first.check,
                                                  action |-> "error"])
                 /\ \/ UNCHANGED email_db
                    \/ /\ PagesOfMessage(email_db, message_id) = {}
                       /\ email_db' = create_email(email_db, message_id)
    /\ sync_queue' = Tail(sync_queue)
    /\ SyncFrame

(***************************************************************************)
(* Watch mode (outlook/main/main.py, run_watch, lines 256-320).  Time is   *)
(* counted per page as the seconds since its last edit, in steps of the    *)
(* poll interval and up to the debounce window.  last_seen is kept as      *)
(* whether it equals the latest last_edited_time of the database.          *)
(***************************************************************************)
WATCH_INTERVAL_SEC == 15
INSTRUCTION_DEBOUNCE_SEC == 60
MaxEdits == 3

WatchPages == {"p1", "p2"}

WatchFrame ==
    UNCHANGED <<vId, vDocx, vLLM, vPipe, vRace, vWalk, vDash, vSend,
                flat_call, email_db, sync_queue, sync_log>>

\* the director writes the Reply Instruction of a page and sets its Draft
\* Status to "Generate Draft" (lines 57-61), or edits such a page again
RequestDraft ==
    /\ edits < MaxEdits
    /\ \E p \in WatchPages :
         /\ watch_pages[p].state \in {"new", "ready"}
         /\ watch_pages' = [watch_pages EXCEPT ![p] = [state |-> "ready", idle_sec |-> 0]]
    /\ edits' = edits + 1
    /\ seen_latest' = FALSE
    /\ WatchFrame

\* any other change of a page: an edit of another property, a new email synced
OtherEdit ==
    /\ edits < MaxEdits
    /\ \E p \in WatchPages :
         /\ watch_pages[p].state # "ready"
         /\ watch_pages' = [watch_pages EXCEPT ![p].idle_sec = 0]
    /\ edits' = edits + 1
    /\ seen_latest' = FALSE
    /\ WatchFrame

\* time.sleep(WATCH_INTERVAL_SEC), line 318
Slept(pgs) ==
    [p \in WatchPages |->
        [pgs[p] EXCEPT !.idle_sec =
            IF pgs[p].idle_sec + WATCH_INTERVAL_SEC >= INSTRUCTION_DEBOUNCE_SEC
            THEN INSTRUCTION_DEBOUNCE_SEC
            ELSE pgs[p].idle_sec + WATCH_INTERVAL_SEC]]

\* _has_ready_to_draft_pages_debounced (lines 213-254)
_has_ready_to_draft_pages_debounced(pgs) ==
    \E p \in WatchPages :
        pgs[p].state = "ready" /\ pgs[p].idle_sec >= INSTRUCTION_DEBOUNCE_SEC

\* process_draft_generation: a draft is saved on every page awaiting one
DraftsGenerated(pgs) ==
    [p \in WatchPages |->
        IF pgs[p].state = "ready" THEN [state |-> "drafted", idle_sec |-> 0] ELSE pgs[p]]

\* line 280: whether this poll evaluates the workflow steps
ChangeDetected_Always(seen) == TRUE

ChangeDetected(seen) == ~seen

\* one round of the loop (lines 263-318): the sleep, then the poll
Poll ==
    /\ LET pgs == Slept(watch_pages) IN
       IF ChangeDetected(seen_latest) /\ _has_ready_to_draft_pages_debounced(pgs)
       THEN /\ watch_pages' = DraftsGenerated(pgs)
            /\ seen_latest' = FALSE
       ELSE /\ watch_pages' = pgs
            /\ seen_latest' = TRUE
    /\ UNCHANGED edits
    /\ WatchFrame

(***************************************************************************)
(* Specifications                                                          *)
(***************************************************************************)
\* nothing has been called, parsed or stored yet
Init ==
    /\ idlog = <<>>
    /\ doc_paragraphs = <<>>
    /\ current_section_status = NoSection
    /\ paragraphs = <<>>
    /\ llm_call = NoCall
    /\ store = <<>>
    /\ run_no = 0
    /\ entry = "none"
    /\ pc = "idle"
    /\ docx_files = <<>>
    /\ doc_idx = 0
    /\ items = <<>>
    /\ item_idx = 0
    /\ all_results = <<>>
    /\ created_count = 0
    /\ updated_count = 0
    /\ log = <<>>
    /\ results_file = <<>>
    /\ all_items = <<>>
    /\ output_json = <<>>
    /\ upsert = [r \in RaceRuns |-> NoUpsert]
    /\ last_op = NoOp
    /\ walk_pc = "start"
    /\ cat_idx = 0
    /\ person_idx = 0
    /\ doc_pos = 0
    /\ by_folder = <<>>
    /\ all_items_flat = <<>>
    /\ doc_log = <<>>
    /\ listed = <<>>
    /\ walk_result = NoResult
    /\ req = [r \in Requests |-> NoRequest]
    /\ drive_agendas = [by_folder |-> <<>>, stats |-> NoResult.stats]
    /\ emails = dashboard_emails(<<>>, InitialFetch)
    /\ mail_sync = [count |-> 0, fetched |-> InitialFetch]
    /\ drafts = <<>>
    /\ pages = [m \in SyncedIds |-> NewPage]
    /\ send_run = NoSendRun
    /\ outbox = <<>>
    /\ flat_call = NoRead
    /\ email_db = <<>>
    /\ sync_queue = <<>>
    /\ sync_log = <<>>
    /\ watch_pages = [p \in WatchPages |-> [state |-> "new", idle_sec |-> INSTRUCTION_DEBOUNCE_SEC]]
    /\ seen_latest = FALSE
    /\ edits = 0

\* calls of make_external_id
SpecId == Init /\ [][MakeId]_vars

\* parse_docx over a document
SpecDocx == Init /\ [][ParseParagraph]_vars

\* one extraction call on either path
NextLLM == ExtractWithLLM \/ ExtractFromNotes

SpecLLM == Init /\ [][NextLLM]_vars

\* batch runs over the agenda folder, one after the other
NextPipe ==
    \/ StartRun
    \/ ExtractDoc
    \/ SyncItem
    \/ FinishRun
    \/ StartExtract
    \/ ExtractNext
    \/ WriteOutput

SpecPipe == Init /\ [][NextPipe]_vars

\* two runs, each upserting item after item
NextRace == \E r \in RaceRuns : UpsertQuery(r) \/ UpsertWrite(r)

SpecRace == Init /\ [][NextRace]_vars

\* one walk of the Drive folder
NextWalk ==
    \/ WalkStart
    \/ EnterCategory
    \/ EnterPerson
    \/ ProcessDoc
    \/ WalkReturn

SpecWalk == Init /\ [][NextWalk]_vars

\* a walk over the folder the caller names
NextWalkOther == WalkStartOther \/ EnterCategory \/ EnterPerson \/ ProcessDoc \/ WalkReturn

SpecWalkOther == Init /\ [][NextWalkOther]_vars

\* syncs of one document's items, one after the other, and manual edits
NextResync == Resync \/ ManualEdit

SpecResync == Init /\ [][NextResync]_vars

\* two requests to the dashboard, served at once
NextLocal ==
    \E r \in Requests :
        \/ ImportWalk(r)
        \/ FolderFetch(r)
        \/ LoadItems(r)
        \/ MarkDoneLoad(r)
        \/ SaveItems(r)
        \/ ImportPersist(r)
        \/ ExtractRoute(r)

SpecLocal == Init /\ [][NextLocal]_vars

\* the replies: the dashboard's draft handlers, the director's edits of the
\* hosted pages, and the two sending batches over them
NextSend ==
    \/ generate_draft
    \/ revise_draft
    \/ update_draft_status
    \/ send_draft
    \/ SetPendingSend
    \/ ReviewDraft
    \/ process_draft_generation
    \/ StartSendRun
    \/ SendApprovedNext
    \/ SendPendingNext

SpecSend == Init /\ [][NextSend]_vars

\* the emails file: the sync that writes it and the handlers that update its rows
NextMail ==
    \/ sync_emails_to_json
    \/ generate_draft
    \/ revise_draft
    \/ send_draft

SpecMail == Init /\ [][NextMail]_vars

\* one read of the results file
SpecFlatten == Init /\ [][ReadResultsFile]_vars

\* sequential runs of sync_emails
NextSync == StartSync \/ SyncEmail

SpecSync == Init /\ [][NextSync]_vars

\* watch mode: the loop polls for ever (while True, line 263)
NextWatch == RequestDraft \/ OtherEdit \/ Poll

SpecWatch == Init /\ [][NextWatch]_vars /\ WF_vars(Poll)

(***************************************************************************)
(* Properties                                                              *)
(***************************************************************************)
\* the runs of the document paragraph a Paragraph Record was made from
RunsOf(r) == doc_paragraphs[r.index + 1]

MostlyStruck(runs) ==
    /\ \E k \in 1..Len(runs) : runs[k].text # <<>> /\ runs[k].strike
    /\ 5 * StrikeChars(runs) >= 3 * TotalChars(runs)

\* C5 as stated: on the recorded fields, status_hint = "done" iff the section is
\* "done" or (has_strike and the recorded strike_ratio >= 0.60).
C5_StatusHintOnRecordedFields ==
    \A k \in 1..Len(paragraphs) :
        LET r == paragraphs[k] IN
        /\ r.status_hint \in {"done", "todo"}
        /\ r.status_hint = "done"
             <=> (r.section_status_hint = "done" \/ (r.has_strike /\ r.strike_ratio >= 600))

\* C5 amended: status_hint = "done" iff the section is "done" or the paragraph has
\* a struck run and its unrounded ratio struck/total is >= 0.60; on the recorded
\* (rounded) strike_ratio the same holds whenever the recorded value is not
\* exactly 0.600; 0.75 gives done and 0.40 gives todo outside a done section.
C5_StatusHintOnExactRatio ==
    \A k \in 1..Len(paragraphs) :
        LET r == paragraphs[k] IN
        /\ r.status_hint \in {"done", "todo"}
        /\ r.status_hint = "done"
             <=> (r.section_status_hint = "done" \/ MostlyStruck(RunsOf(r)))
        /\ r.strike_ratio # 600 =>
             (r.status_hint = "done"
                <=> (r.section_status_hint = "done" \/ (r.has_strike /\ r.strike_ratio >= 600)))
        /\ (r.has_strike /\ r.strike_ratio = 750 /\ r.section_status_hint # "done")
             => r.status_hint = "done"
        /\ (r.has_strike /\ r.strike_ratio = 400 /\ r.section_status_hint # "done")
             => r.status_hint = "todo"

\* C5 witness: with no section, a record with strike_ratio 0.75 is done, one with
\* 0.40 is todo and one struck exactly 3/5 is done.
C5_Witness ==
    /\ \E k \in 1..Len(paragraphs) :
         /\ paragraphs[k].section_status_hint = NoSection
         /\ paragraphs[k].has_strike /\ paragraphs[k].strike_ratio = 750
         /\ paragraphs[k].status_hint = "done"
    /\ \E k \in 1..Len(paragraphs) :
         /\ paragraphs[k].has_strike /\ paragraphs[k].strike_ratio = 400
         /\ paragraphs[k].status_hint = "todo"
    /\ \E k \in 1..Len(paragraphs) :
         /\ paragraphs[k].section_status_hint = NoSection
         /\ 5 * StrikeChars(RunsOf(paragraphs[k])) = 3 * TotalChars(RunsOf(paragraphs[k]))
         /\ paragraphs[k].status_hint = "done"

IsDoneHeader(text) ==
    \E k \in 1..Len(DONE_SECTION_PREFIXES) : UpperStartsWith(text, DONE_SECTION_PREFIXES[k])

IsWorkingHeader(text) ==
    /\ ~IsDoneHeader(text)
    /\ \E k \in 1..Len(WORKING_SECTION_PREFIXES) :
         UpperStartsWith(text, Upper(WORKING_SECTION_PREFIXES[k]))

IsHeader(text) == IsDoneHeader(text) \/ IsWorkingHeader(text)

\* the records before record k that are headers
HeadersBefore(k) == { h \in 1..(k - 1) : IsHeader(paragraphs[h].text) }

LastHeaderBefore(k) == CHOOSE h \in HeadersBefore(k) : \A g \in HeadersBefore(k) : g <= h

\* C6 as stated: a paragraph between a "done" header and the next header is done,
\* and one between a "working" header and the next header is todo, whatever its
\* own strikethrough.
C6_SectionDecidesStatus ==
    \A k \in 1..Len(paragraphs) :
        (~IsHeader(paragraphs[k].text) /\ HeadersBefore(k) # {}) =>
            LET h == paragraphs[LastHeaderBefore(k)] IN
            /\ IsDoneHeader(h.text) => paragraphs[k].status_hint = "done"
            /\ IsWorkingHeader(h.text) => paragraphs[k].status_hint = "todo"

\* C6 amended: the section status is sticky until the next header (a paragraph
\* that is no header carries the section of the last header before it, or none);
\* after a "done" header every paragraph is done whatever its formatting; after a
\* "working" header a paragraph is todo unless it is itself at least 60% struck,
\* in which case it is done.
C6_SectionSticky ==
    \A k \in 1..Len(paragraphs) :
        LET r == paragraphs[k] IN
        /\ IsDoneHeader(r.text) => r.section_status_hint = "done"
        /\ IsWorkingHeader(r.text) => r.section_status_hint = "todo"
        /\ (~IsHeader(r.text) /\ HeadersBefore(k) = {}) => r.section_status_hint = NoSection
        /\ (~IsHeader(r.text) /\ HeadersBefore(k) # {}) =>
             LET h == paragraphs[LastHeaderBefore(k)] IN
             /\ r.section_status_hint = h.section_status_hint
             /\ IsDoneHeader(h.text) => r.status_hint = "done"
             /\ IsWorkingHeader(h.text) =>
                  (r.status_hint = "done" <=> MostlyStruck(RunsOf(r)))

\* C6 witness: DONE header, an unstruck paragraph that is done, a WORKING header,
\* then an unstruck paragraph that is todo.
C6_Witness ==
    /\ Len(paragraphs) = 4
    /\ IsDoneHeader(paragraphs[1].text)
    /\ ~IsHeader(paragraphs[2].text) /\ ~paragraphs[2].has_strike
    /\ paragraphs[2].status_hint = "done"
    /\ IsWorkingHeader(paragraphs[3].text)
    /\ ~IsHeader(paragraphs[4].text) /\ ~paragraphs[4].has_strike
    /\ paragraphs[4].status_hint = "todo"

\* C7: make_external_id is a function of its arguments, and with document and
\* text the same a different paragraph index (missing, 0 or any integer) gives a
\* different id.
C7_ExternalIdIndexSensitive ==
    \A i, j \in 1..Len(idlog) :
        LET a == idlog[i]
            b == idlog[j]
        IN  /\ (a.source_doc = b.source_doc /\ a.paragraph_index = b.paragraph_index
                  /\ a.text = b.text) => a.external_id = b.external_id
            /\ (a.source_doc = b.source_doc /\ a.text = b.text
                  /\ a.paragraph_index # b.paragraph_index) => a.external_id # b.external_id

\* C7 witness: the same document and text with index missing and index 0 got two
\* different ids.
C7_Witness ==
    \E i, j \in 1..Len(idlog) :
        /\ idlog[i].source_doc = idlog[j].source_doc /\ idlog[i].text = idlog[j].text
        /\ idlog[i].paragraph_index = PyNone /\ idlog[j].paragraph_index = PyInt(0)
        /\ idlog[i].external_id # idlog[j].external_id

\* C8 as stated: two items that differ in (source document, paragraph index,
\* text) never share an external_id.
C8_ExternalIdInjective ==
    \A i, j \in 1..Len(idlog) :
        LET a == idlog[i]
            b == idlog[j]
        IN  (a.source_doc # b.source_doc \/ a.paragraph_index # b.paragraph_index
               \/ a.text # b.text) => a.external_id # b.external_id

\* C8 amended: for two items of the same source document, a different paragraph
\* index or a text that differs after trimming surrounding whitespace gives a
\* different external_id; texts that differ only in surrounding whitespace give
\* the same one.
C8_ExternalIdSameDocument ==
    \A i, j \in 1..Len(idlog) :
        LET a == idlog[i]
            b == idlog[j]
        IN  a.source_doc = b.source_doc =>
              (a.external_id = b.external_id
                 <=> (a.paragraph_index = b.paragraph_index /\ Strip(a.text) = Strip(b.text)))

\* C8 witness: one document, one index, two texts that differ after trimming,
\* two ids.
C8_Witness ==
    \E i, j \in 1..Len(idlog) :
        /\ idlog[i].source_doc = idlog[j].source_doc
        /\ idlog[i].paragraph_index = idlog[j].paragraph_index
        /\ Strip(idlog[i].text) # Strip(idlog[j].text)
        /\ idlog[i].external_id # idlog[j].external_id

\* the bracketed substring raw[start : end + 1] of the salvage step, when there is one
HasBracketPair(raw) ==
    Find(raw, "[") # -1 /\ RFind(raw, "]") # -1 /\ RFind(raw, "]") > Find(raw, "[")

Bracketed(raw) == SubSeq(raw, Find(raw, "[") + 1, RFind(raw, "]") + 1)

\* C3 as stated: a response that is JSON is used as is; else the substring from
\* the first "[" to the last "]" is parsed; and when that fails too (no bracket
\* pair, or the substring is no JSON) the document path raises a parse error and
\* the free-form path returns [] and never raises.
C3_ThreeStepParsePolicy ==
    (llm_call.llm_called /\ llm_call.outcome.error # "HTTPError") =>
        LET raw == llm_call.raw IN
        /\ IsJsonValue(raw) => llm_call.step = "strict"
        /\ (~IsJsonValue(raw) /\ HasBracketPair(raw) /\ IsJsonValue(Bracketed(raw)))
             => llm_call.step = "salvage"
        /\ (~IsJsonValue(raw) /\ (~HasBracketPair(raw) \/ ~IsJsonValue(Bracketed(raw)))) =>
             IF llm_call.path = "document"
             THEN /\ llm_call.outcome.kind = "raise"
                  /\ llm_call.outcome.error \in {"ValueError", "JSONDecodeError"}
             ELSE /\ llm_call.outcome.kind = "ok"
                  /\ llm_call.outcome.items = <<>>

IsDoneStatus(value) ==
    value.type = "str" /\ Lower(Strip(value.v)) = <<"d","o","n","e">>

PagesWith(external_id) == QueryResults(store, external_id)

Synced(k) == log[k].action \in {"created", "updated"}

\* C1: run after run of the hosted-store pipeline, no two records share an
\* External ID; every item synced in the current run has exactly one record; a
\* run creates a record only for an item that had none (its record is of this
\* run, and no earlier line of the run synced the same id), and an item whose
\* record an earlier run or line created is updated in place.
C1_IdempotentUpsert ==
    /\ \A i, j \in 1..Len(store) :
         i # j => store[i].props.ExternalID # store[j].props.ExternalID
    /\ \A k \in 1..Len(log) :
         (entry = "process_agenda_docs" /\ Synced(k)) =>
           /\ PagesWith(log[k].external_id) = {log[k].page_id}
           /\ log[k].action = "created" =>
                /\ store[log[k].page_id].created_run = run_no
                /\ \A j \in 1..(k - 1) :
                     Synced(j) => log[j].external_id # log[k].external_id
           /\ log[k].action = "updated" =>
                \/ store[log[k].page_id].created_run < run_no
                \/ \E j \in 1..(k - 1) :
                     /\ log[j].action = "created"
                     /\ log[j].external_id = log[k].external_id
    /\ created_count = Cardinality({k \in 1..Len(log) : log[k].action = "created"})
    /\ updated_count = Cardinality({k \in 1..Len(log) : log[k].action = "updated"})

\* C1 (witness): the second run has synced the same items as the first (the
\* results file still holds the first run's), all of them as updates, and
\* the store holds the three records of the first run for the four triples.
C1_Witness ==
    /\ entry = "process_agenda_docs"
    /\ run_no = 2
    /\ pc = "docs"
    /\ doc_idx = Len(docx_files)
    /\ item_idx = Len(items)
    /\ results_file = all_results
    /\ created_count = 0
    /\ updated_count = 4
    /\ Len(store) = 3
    /\ \A i \in 1..Len(store) : store[i].created_run = 1

\* the documents of the current run whose extraction failed
FailedDocs ==
    { k \in 1..Len(docx_files) :
        \/ \E l \in 1..Len(log) :
             log[l].action = "extract_failed" /\ log[l].filename = docx_files[k]
        \/ pc = "aborted" /\ entry = "extract_action_items_from_agendas" /\ k = doc_idx }

\* C2: a batch over the agenda folder, by either entry point, is never
\* aborted by a failing document: it goes on to the other documents and ends
\* with a result.
C2_BatchNeverAborted ==
    /\ pc # "aborted"
    /\ (pc = "done" /\ entry = "process_agenda_docs" /\ docx_files # <<>>) =>
         /\ Len(results_file) = Len(docx_files)
         /\ \A k \in 1..Len(docx_files) :
              /\ results_file[k].filename = docx_files[k]
              /\ k \in FailedDocs => results_file[k].items = <<>>
    /\ (pc = "done" /\ entry = "extract_action_items_from_agendas") =>
         doc_idx = Len(docx_files)

\* C9: the query and the write of an upsert are two requests with nothing
\* held between them, so two runs can both find no record and both create
\* one.  Records sharing an External ID are always of different runs: one run
\* alone never makes a duplicate.
C9_DuplicatesOnlyAcrossRuns ==
    \A i, j \in 1..Len(store) :
        (i # j /\ store[i].props.ExternalID = store[j].props.ExternalID)
            => store[i].created_run # store[j].created_run

\* C9 (witness): both runs have written, and the store holds two records with
\* one External ID, one of each run.
C9_Witness ==
    /\ \A r \in RaceRuns : upsert[r].pc = "idle"
    /\ \E i, j \in 1..Len(store) :
         /\ i # j
         /\ store[i].props.ExternalID = store[j].props.ExternalID
         /\ store[i].created_run = 1
         /\ store[j].created_run = 2

\* the entries of by_folder, folder after folder
RECURSIVE EntriesOf(_)
EntriesOf(sections) ==
    IF sections = <<>> THEN <<>> ELSE Head(sections).value \o EntriesOf(Tail(sections))

RECURSIVE AllEntries(_)
AllEntries(bf) ==
    IF bf = <<>> THEN <<>> ELSE EntriesOf(Head(bf).value) \o AllEntries(Tail(bf))

RECURSIVE ItemsOf(_)
ItemsOf(entries) ==
    IF entries = <<>> THEN <<>> ELSE Head(entries).items \o ItemsOf(Tail(entries))

\* the read or the extraction of a logged document failed
DocFailed(l) == ~Truthy(l.read.text) \/ l.extraction.kind = "raise"

\* the documents of the Drive tree the walk is to process
QualifyingDocIds == {"d1", "d3", "d5", "d9"}

\* C10: every document the walker has taken has its entry: with no items and
\* an error string when its read or its extraction failed, with its items
\* and no error otherwise; the flat list holds the items of the entries; and
\* a walk that returns its result has taken every qualifying document,
\* whichever of them failed.
C10_WalkerToleratesDocFailures ==
    LET entries == AllEntries(by_folder) IN
    /\ Len(entries) = Len(doc_log)
    /\ \A k \in 1..Len(doc_log) :
         /\ entries[k].doc_id = doc_log[k].doc_id
         /\ DocFailed(doc_log[k]) =>
              /\ entries[k].items = <<>>
              /\ entries[k].error.type = "str"
         /\ ~DocFailed(doc_log[k]) =>
              /\ entries[k].error = PyNone
              /\ Len(entries[k].items) = Len(doc_log[k].extraction.items)
              /\ \A i \in 1..Len(entries[k].items) :
                   entries[k].items[i].text = doc_log[k].extraction.items[i].text
    /\ all_items_flat = ItemsOf(entries)
    /\ (walk_pc = "docs" /\ doc_pos > 0) => doc_log[Len(doc_log)].doc_id = CurrentDocs[doc_pos].id
    /\ (walk_pc = "returned" /\ walk_result.error = PyNone) =>
         /\ {doc_log[k].doc_id : k \in 1..Len(doc_log)} = QualifyingDocIds
         /\ Len(doc_log) = Cardinality(QualifyingDocIds)
         /\ walk_result.all_items_flat = ItemsOf(AllEntries(walk_result.by_folder))

\* C10 (witness): a walk has returned after an unreadable document, an empty
\* one and one whose extraction raised, with the items of the fourth.
C10_Witness ==
    /\ walk_pc = "returned"
    /\ walk_result.error = PyNone
    /\ \E k \in 1..Len(doc_log) :
         doc_log[k].read.text = PyNone /\ Truthy(doc_log[k].read.read_error)
    /\ \E k \in 1..Len(doc_log) :
         doc_log[k].read.text = PyNone /\ doc_log[k].read.read_error = PyNone
    /\ \E k \in 1..Len(doc_log) : doc_log[k].extraction.kind = "raise"
    /\ DocFailed(doc_log[1])
    /\ ~DocFailed(doc_log[Len(doc_log)])
    /\ walk_result.all_items_flat # <<>>

\* every file of the Drive tree below children, with the names of the folders
\* above it under the root (path) and the files above it (above)
RECURSIVE TreeNodes(_, _, _)
TreeNodes(children, path, above) ==
    UNION { {[file |-> children[i], path |-> path, above |-> above]}
            \cup TreeNodes(children[i].children, Append(path, children[i].name),
                           Append(above, children[i].id)) :
            i \in 1..Len(children) }

DriveNodes == TreeNodes(DriveRoot, <<>>, <<>>)

NodeOf(id) == CHOOSE n \in DriveNodes : n.file.id = id

LoggedDocIds == {doc_log[k].doc_id : k \in 1..Len(doc_log)}

\* the name holds the token "2026" and does not hold the token "2025"
YearAdmits(name) ==
    /\ \E i \in 1..(Len(name) - 3) : SubSeq(name, i, i + 3) = <<"2","0","2","6">>
    /\ \A i \in 1..(Len(name) - 3) : SubSeq(name, i, i + 3) # <<"2","0","2","5">>

\* C11: every document the walker reads has a name with "2026" and without
\* "2025", in a category folder as in a person folder; a document failing that
\* is never read, and so never sent to the LLM or entered in the result.
C11_YearFilter ==
    /\ \A id \in LoggedDocIds : YearAdmits(NodeOf(id).file.name)
    /\ \A k \in 1..Len(AllEntries(by_folder)) :
         YearAdmits(AllEntries(by_folder)[k].doc_name)
    /\ \A i \in 1..Len(all_items_flat) : YearAdmits(all_items_flat[i].source_doc)
    /\ walk_pc = "docs" =>
         \A d \in 1..Len(CurrentDocs) : YearAdmits(CurrentDocs[d].name)
    /\ (walk_pc = "docs" /\ person_idx = 0) =>
         \A c \in 1..Len(category_folders[cat_idx].children) :
            LET f == category_folders[cat_idx].children[c] IN
            (IsDoc(f) /\ YearAdmits(f.name)) =>
               \E d \in 1..Len(CurrentDocs) : CurrentDocs[d].id = f.id
    /\ (walk_pc = "docs" /\ person_idx > 0) =>
         \A c \in 1..Len(person_subfolders(cat_idx)[person_idx].children) :
            LET f == person_subfolders(cat_idx)[person_idx].children[c] IN
            (IsDoc(f) /\ YearAdmits(f.name)) =>
               \E d \in 1..Len(CurrentDocs) : CurrentDocs[d].id = f.id

\* C11 (witness): the walk is in a person folder that holds a "2026" document,
\* a "2026-2025" one and a "2025" one, and has read the first and no other.
C11_Witness ==
    /\ walk_pc = "docs"
    /\ person_idx > 0
    /\ doc_pos = Len(CurrentDocs)
    /\ doc_pos = 1
    /\ \E c \in 1..Len(person_subfolders(cat_idx)[person_idx].children) :
         LET f == person_subfolders(cat_idx)[person_idx].children[c] IN
         /\ IsDoc(f)
         /\ Contains(f.name, <<"2","0","2","6">>)
         /\ Contains(f.name, <<"2","0","2","5">>)
         /\ f.id \notin LoggedDocIds
    /\ "d2" \notin LoggedDocIds
    /\ "d5" \in LoggedDocIds

\* the name holds "archive" in any case, behind a leading "*" or "**"
ArchivedPattern(name) ==
    /\ name # <<>>
    /\ name[1] = "*"
    /\ \E i \in 1..(Len(name) - 6) :
         Lower(SubSeq(name, i, i + 6)) = <<"a","r","c","h","i","v","e">>

\* the files of the tree beneath a folder of the archived pattern
BeneathArchived ==
    { n.file.id : n \in { q \in DriveNodes :
                            \E a \in 1..Len(q.path) : ArchivedPattern(q.path[a]) } }

EntryDocIds == { AllEntries(by_folder)[k].doc_id : k \in 1..Len(AllEntries(by_folder)) }

\* the file ids in the links of the flat list
FlatDocIds == { all_items_flat[i].doc_link[2] : i \in 1..Len(all_items_flat) }

\* C12: a folder of the archived pattern is never listed, as a category or as
\* a person folder, is no key of by_folder, and no document beneath it is read
\* or appears in by_folder or in all_items_flat.
C12_ArchivedNeverDescended ==
    /\ \A k \in 1..Len(listed) :
         listed[k] # ROOT_FOLDER_ID => ~ArchivedPattern(NodeOf(listed[k]).file.name)
    /\ \A c \in 1..Len(by_folder) :
         /\ ~ArchivedPattern(by_folder[c].key)
         /\ \A f \in 1..Len(by_folder[c].value) : ~ArchivedPattern(by_folder[c].value[f].key)
    /\ BeneathArchived \cap (LoggedDocIds \cup EntryDocIds \cup FlatDocIds) = {}

\* C12 (witness): the walk has returned after a root with an archived
\* category folder and a category with an archived person folder, each
\* holding a document of 2026, and has listed the five other folders.
C12_Witness ==
    /\ walk_pc = "returned"
    /\ walk_result.error = PyNone
    /\ listed = <<ROOT_FOLDER_ID, "f2", "f3", "f5", "f6">>
    /\ \E n \in DriveNodes :
         /\ Len(n.path) = 1
         /\ ArchivedPattern(n.path[1])
         /\ IsDoc2026(n.file)
    /\ \E n \in DriveNodes :
         /\ Len(n.path) = 2
         /\ ~ArchivedPattern(n.path[1])
         /\ ArchivedPattern(n.path[2])
         /\ IsDoc2026(n.file)
    /\ FlatDocIds # {}

\* the Google Docs and .docx files with an admitted name that lie in a category
\* folder (a folder of the root) or in a folder of a category folder, none of
\* the folders being archived
ThreeLevelDocIds ==
    { n.file.id : n \in { q \in DriveNodes :
        /\ q.file.mimeType \in {MIME_GOOGLE_DOC, MIME_DOCX}
        /\ YearAdmits(q.file.name)
        /\ Len(q.path) \in {1, 2}
        /\ \A a \in 1..Len(q.path) : ~ArchivedPattern(q.path[a]) } }

\* C13: the walker reads only year-filtered documents lying directly in a
\* non-archived category folder or directly in a non-archived folder of one,
\* each at most once, and a walk that returns its result has read all of
\* them; a document of the root or one nested deeper is never read.
C13_ThreeLevels ==
    /\ LoggedDocIds \subseteq ThreeLevelDocIds
    /\ EntryDocIds \subseteq ThreeLevelDocIds
    /\ FlatDocIds \subseteq ThreeLevelDocIds
    /\ \A j, k \in 1..Len(doc_log) : doc_log[j].doc_id = doc_log[k].doc_id => j = k
    /\ \A k \in 1..Len(listed) :
         listed[k] # ROOT_FOLDER_ID => Len(NodeOf(listed[k]).path) \in {0, 1}
    /\ (walk_pc = "returned" /\ walk_result.error = PyNone) =>
         /\ LoggedDocIds = ThreeLevelDocIds
         /\ walk_result.stats.total_docs_processed = Cardinality(ThreeLevelDocIds)

\* C13 (witness): a walk has returned having read documents of a category
\* folder and of a person folder, and neither the 2026 document of the root
\* nor the one nested below a person folder.
C13_Witness ==
    /\ walk_pc = "returned"
    /\ walk_result.error = PyNone
    /\ \E id \in LoggedDocIds : Len(NodeOf(id).path) = 1
    /\ \E id \in LoggedDocIds : Len(NodeOf(id).path) = 2
    /\ \E n \in DriveNodes :
         n.path = <<>> /\ IsDoc2026(n.file) /\ n.file.id \notin LoggedDocIds
    /\ \E n \in DriveNodes :
         /\ Len(n.path) = 3
         /\ IsDoc2026(n.file)
         /\ \A a \in 1..3 : ~ArchivedPattern(n.path[a])
         /\ n.file.id \notin LoggedDocIds

\* the position in doc_log of the document read with this id
LogIndexOf(id) == CHOOSE k \in 1..Len(doc_log) : doc_log[k].doc_id = id

\* the item is the extracted item x with nothing but the provenance added
SameItem(it, x) ==
    /\ it.text = x.text
    /\ it.owner = x.owner
    /\ it.owner_email = x.owner_email
    /\ it.due_date = x.due_date
    /\ it.priority = x.priority
    /\ it.status = x.status
    /\ it.context = x.context
    /\ it.paragraph_index = x.paragraph_index

\* C14: every item of all_items_flat names a document the walker read, was
\* extracted from that document, and carries that document's category, its
\* folder (or the section of the category's own documents), its name and its
\* viewer link.
C14_Provenance ==
    \A i \in 1..Len(all_items_flat) :
        LET it == all_items_flat[i]
            id == it.doc_link[2]
        IN  /\ DOMAIN it = {"text", "owner", "owner_email", "due_date", "priority", "status",
                            "context", "paragraph_index", "source_category",
                            "source_folder", "source_doc", "doc_link"}
            /\ id \in LoggedDocIds
            /\ \E x \in 1..Len(doc_log[LogIndexOf(id)].extraction.items) :
                 SameItem(it, doc_log[LogIndexOf(id)].extraction.items[x])
            /\ it.source_doc = NodeOf(id).file.name
            /\ it.source_category = NodeOf(id).path[1]
            /\ it.source_folder = (IF Len(NodeOf(id).path) = 1
                                   THEN <<"T","h","i","s"," ","f","o","l","d","e","r">>
                                   ELSE NodeOf(id).path[2])
            /\ it.doc_link = (IF NodeOf(id).file.mimeType = MIME_GOOGLE_DOC
                              THEN <<"docs.google.com/document/d", id, "edit">>
                              ELSE <<"drive.google.com/file/d", id, "view">>)

\* C14 (witness): the flat list holds items of a Google Doc lying in a
\* category folder and of a .docx lying in a person folder.
C14_Witness ==
    /\ \E i \in 1..Len(all_items_flat) :
         /\ all_items_flat[i].source_folder = SECTION_THIS_FOLDER
         /\ all_items_flat[i].doc_link[3] = "edit"
    /\ \E i \in 1..Len(all_items_flat) :
         /\ all_items_flat[i].source_folder = <<"A","n","n">>
         /\ all_items_flat[i].source_category = <<"P","r","o","j">>
         /\ all_items_flat[i].doc_link[3] = "view"

\* the properties the upsert is said to overwrite
OverwrittenFields == {"Name", "Status", "Context", "Due", "Assignee", "ParagraphIndex"}

\* C15: after an upsert that found the record, each of Name, Status, Context,
\* Due, Assignee and Paragraph Index on the record is the value derived from
\* the item synced (none where the item has none), and the id returned is the
\* record's.
C15_FullOverwrite ==
    last_op.kind = "updated" =>
        /\ last_op.page_id \in 1..Len(store)
        /\ store[last_op.page_id].id = last_op.page_id
        /\ \A field \in OverwrittenFields :
             store[last_op.page_id].props[field] = last_op.props[field]

\* C16: no step of a batch run removes a persisted action item: every page
\* of the hosted store is still a page of it after the step, and every item of
\* the local action-items file is still in the file after the step.
C16_NeverDeletes ==
    [][ /\ \A i \in 1..Len(store) :
             /\ i <= Len(store')
             /\ store'[i].id = store[i].id
             /\ store'[i].props.ExternalID = store[i].props.ExternalID
        /\ \A i \in 1..Len(output_json) :
             \E j \in 1..Len(output_json') : output_json'[j] = output_json[i]
      ]_vars

\* C17: every extraction run over the local file appends: when a run writes
\* the file, the file is what it was just before, followed by the items the
\* run extracted.
C17_EveryRunAppends ==
    [][ \A r \in Requests :
          /\ (req[r].pc = "idle" /\ req'[r].op = "extract_action_items" /\ req'[r].saved) =>
                output_json' = output_json \o req'[r].change.items
          /\ (req[r].pc = "save" /\ req'[r].saved /\ req[r].change.kind = "extend"
                /\ req[r].loaded = output_json) =>
                output_json' = output_json \o req[r].change.items
      ]_vars

\* the list with the items of the given paragraph index marked done
MarkedDone(list, paragraph_index) ==
    [i \in 1..Len(list) |->
        IF list[i].paragraph_index.type # "none"
           /\ list[i].paragraph_index.v = Str(paragraph_index)
        THEN [list[i] EXCEPT !.status = "done"]
        ELSE IF list[i].paragraph_index.type = "none" /\ paragraph_index.type = "none"
        THEN [list[i] EXCEPT !.status = "done"]
        ELSE list[i]]

\* C18: a handler writes the list it loaded earlier with its own change, not
\* the file as it is at the time of the write: nothing is held between the load
\* and the save, so a change another request saved in between is lost.
C18_WritesFromSnapshot ==
    [][ \A r \in Requests :
          (req[r].pc = "save" /\ req'[r].saved) =>
             output_json' = (IF req[r].change.kind = "extend"
                             THEN req[r].loaded \o req[r].change.items
                             ELSE MarkedDone(req[r].loaded, req[r].change.paragraph_index))
      ]_vars

\* C18 (witness): two merge imports have both saved their items, and the
\* file holds none of the items of one of them.
C18_Witness ==
    \E a, b \in Requests :
        /\ a # b
        /\ req[a].pc = "done" /\ req[a].saved /\ req[a].op = "api_drive_agendas_extract"
        /\ req[b].pc = "done" /\ req[b].saved /\ req[b].op = "api_drive_agendas_extract"
        /\ req[a].change.items # <<>>
        /\ req[b].change.items # <<>>
        /\ \A i \in 1..Len(output_json), j \in 1..Len(req[a].change.items) :
             output_json[i] # req[a].change.items[j]
        /\ output_json = req[b].change.items

\* the number of items extracted by the run (the lists of line 587)
ExtractedCount ==
    LET RECURSIVE Sum(_)
        Sum(rs) == IF rs = <<>> THEN 0 ELSE Len(Head(rs).items) + Sum(Tail(rs))
    IN  Sum(all_results)

\* the log lines of the run with the given outcome
LogCount(action) == Cardinality({ l \in 1..Len(log) : log[l].action = action })

\* the item-level part of C19: a failed upsert is caught at item level, so a
\* run over a non-empty folder reaches its end with every extracted item
\* handled once: created, updated or reported as failed
C19_ItemFailuresCaught ==
    (pc = "done" /\ entry = "process_agenda_docs" /\ docx_files # <<>>) =>
        /\ doc_idx = Len(docx_files)
        /\ LogCount("created") + LogCount("updated") + LogCount("failed") = ExtractedCount
        /\ created_count = LogCount("created")
        /\ updated_count = LogCount("updated")

\* C19: every run of process_agenda_docs ends with summary counts that
\* account for every extracted item, also when items or documents failed:
\* the counts of the summary add up to the number of items extracted.
C19_SummaryAccountsForAll ==
    (pc = "done" /\ entry = "process_agenda_docs" /\ docx_files # <<>>) =>
        SummaryCounts[1] + SummaryCounts[2] = ExtractedCount

\* the status that releases a reply on each sending path: the draft's status
\* in DRAFTS_JSON, the page's Draft Status, the page's Status
ApprovedStatus(path) ==
    IF path = "process_pending_replies" THEN "Pending Send" ELSE "Approved"

\* C20: on every sending path a reply is sent for a message only if, at the
\* time of sending, the draft or page of that message carries the approved
\* status: a draft generated or revised but not approved, or already marked
\* sent, is never sent.
C20_SentOnlyWhenApproved ==
    \A k \in 1..Len(outbox) : outbox[k].status = ApprovedStatus(outbox[k].path)

Priorities == { <<"l","o","w">>, <<"m","e","d","i","u","m">>, <<"h","i","g","h">> }

\* C21: every action item returned by either extraction function has a
\* priority in {low, medium, high}; an item for which the LLM reported no
\* priority (the key absent, or null) gets "medium".
C21_PriorityInRange ==
    llm_call.outcome.kind = "ok" =>
        \A i \in 1..Len(llm_call.outcome.items) :
            /\ llm_call.outcome.items[i].priority.type = "str"
            /\ llm_call.outcome.items[i].priority.v \in Priorities

\* the part of C21 that the code keeps: an object with no "priority" key
\* comes out with "medium"
C21_AbsentKeyGetsMedium ==
    llm_call.outcome.kind = "ok" =>
        \A i \in 1..Len(llm_call.outcome.items) :
            llm_call.parsed[i].obj.priority = Missing =>
                llm_call.outcome.items[i].priority = PyStr(<<"m","e","d","i","u","m">>)

\* C30: extract_action_items_from_notes_text returns [] without calling the
\* LLM whenever the notes are empty or consist only of whitespace.
C30_BlankNotesNoLLMCall ==
    (llm_call.path = "notes" /\ Strip(llm_call.notes) = <<>>) =>
        /\ ~llm_call.llm_called
        /\ llm_call.outcome = [kind |-> "ok", error |-> "", items |-> <<>>]

\* the occurrences of item x in a list
Count(l, x) == Cardinality({ i \in 1..Len(l) : l[i] = x })

\* the items before the list of the k-th key of a dict
RECURSIVE OffsetOf(_, _)
OffsetOf(entries, k) ==
    IF k <= 1 THEN 0
    ELSE OffsetOf(entries, k - 1)
         + (IF entries[k - 1].value.type = "list" THEN Len(entries[k - 1].value.v) ELSE 0)

\* C22: a reader of the results file flattens a dict to the concatenation of
\* its list values in key order and passes a list through unchanged;
\* flattening again changes nothing, and no item is dropped or duplicated.
C22_FlattenBothForms ==
    flat_call.reader # "none" =>
        LET data == flat_call.data
            result == flat_call.result
        IN  /\ data.type = "list" => result = data
            /\ data.type = "dict" =>
                 /\ result.type = "list"
                 /\ Len(result.v) = OffsetOf(data.v, Len(data.v) + 1)
                 /\ \A k \in 1..Len(data.v) :
                      data.v[k].value.type = "list" =>
                        \A i \in 1..Len(data.v[k].value.v) :
                            result.v[OffsetOf(data.v, k) + i] = data.v[k].value.v[i]
                 /\ \A x \in FileItems :
                      Count(result.v, x) = OffsetOf([k \in 1..Len(data.v) |->
                                                       [key |-> data.v[k].key,
                                                        value |-> IF data.v[k].value.type = "list"
                                                                  THEN JsonList(SelectSeq(data.v[k].value.v, LAMBDA y : y = x))
                                                                  ELSE data.v[k].value]],
                                                    Len(data.v) + 1)
            /\ flat_call.again = result

\* a dict of two documents with items each has been read
C22_Witness ==
    /\ flat_call.reader = "load_json"
    /\ flat_call.data.type = "dict"
    /\ Len(flat_call.data.v) = 2
    /\ \A k \in 1..2 : flat_call.data.v[k].value.type = "list" /\ Len(flat_call.data.v[k].value.v) = 2
    /\ flat_call.data.v[1].value.v # flat_call.data.v[2].value.v
    /\ Len(flat_call.result.v) = 4

\* C23: after any number of sequential sync_emails runs the hosted email
\* database holds at most one page per Message ID: an email whose page exists
\* is never created a second time, also when the first existence check fails
\* and returns False.
C23_OnePagePerMessage ==
    \A i, j \in 1..Len(email_db) :
        email_db[i].message_id = email_db[j].message_id => i = j

\* an email whose page existed was handled after its first check failed, and
\* was not created again
C23_Witness ==
    \E k \in 1..Len(sync_log) :
        /\ sync_log[k].check = "failed"
        /\ sync_log[k].action = "exists"
        /\ \E l \in 1..(k - 1) :
              sync_log[l].message_id = sync_log[k].message_id /\ sync_log[l].action = "created"
        /\ Cardinality(PagesOfMessage(email_db, sync_log[k].message_id)) = 1

\* the replies sent by send_approved_replies
ApprovedSends == { k \in 1..Len(outbox) : outbox[k].path = "send_approved_replies" }

\* C24: across any sequence of send_approved_replies runs a reply is sent at
\* most once per approved draft: once the mail provider has accepted the send
\* for a page, no later run sends that draft again, also when marking the
\* page as sent failed after the send.
C24_SentAtMostOnce ==
    \A i, j \in ApprovedSends :
        (outbox[i].message_id = outbox[j].message_id /\ outbox[i].body = outbox[j].body) => i = j

\* C26: POST /drafts/send sends the most recent draft stored for the email,
\* the one the emails view shows as latest: the body sent and the draft
\* marked "Sent" are those of the last draft of the email in drafts.json.
C26_SendsLatestDraft ==
    [][ (Len(outbox') = Len(outbox) + 1 /\ outbox'[Len(outbox')].path = "send_draft") =>
          LET sent == outbox'[Len(outbox')]
              latest == drafts_map(drafts, sent.message_id)
          IN  /\ sent.body = drafts[latest].draft
              /\ drafts'[latest].status = "Sent"
      ]_vars

\* C27: sync_emails_to_json replaces the whole emails file with one entry per
\* fetched unread email, in fetch order, with reply_instruction "",
\* draft_status "new" and workflow_status "idle" whatever the email had
\* before; emails no longer fetched disappear, and the drafts file is left
\* unchanged.
C27_SyncReplacesEmails ==
    [][ mail_sync'.count = mail_sync.count + 1 =>
          /\ Len(emails') = Len(mail_sync'.fetched)
          /\ \A i \in 1..Len(emails') :
               /\ emails'[i].id = mail_sync'.fetched[i]
               /\ emails'[i].reply_instruction = ""
               /\ emails'[i].draft_status = "new"
               /\ emails'[i].workflow_status = "idle"
          /\ drafts' = drafts
      ]_vars

\* a sync has run over a file in which m1 had an instruction and a sent
\* draft: m1 is fetched again, m2 no longer
C27_Witness ==
    /\ mail_sync.count = 1
    /\ mail_sync.fetched = <<"m1">>
    /\ Len(emails) = 1
    /\ emails[1].draft_status = "new"
    /\ \E k \in 1..Len(outbox) : outbox[k].path = "send_draft" /\ outbox[k].message_id = "m1"
    /\ \E d \in 1..Len(drafts) : drafts[d].email_id = "m1" /\ drafts[d].status = "Sent"

\* C25: in watch mode a page with a Reply Instruction and Draft Status
\* "Generate Draft" that is then left unedited eventually gets draft
\* generation run for it, once idle for the debounce window, even if nothing
\* else in the database changes after the poll that first detected the edit.
C25_ReadyPageEventuallyDrafted ==
    \A p \in WatchPages : (watch_pages[p].state = "ready") ~> (watch_pages[p].state = "drafted")

\* C28: the two parts of the walker's result agree: all_items_flat is the
\* concatenation, in processing order, of the items of the document entries
\* present in by_folder, and stats.total_docs_processed is the number of
\* documents that passed the filters and were processed, also when two
\* category folders, or two subfolders of one category, share a name.
C28_ResultPartsAgree ==
    (walk_pc = "returned" /\ walk_result.error = PyNone) =>
        /\ walk_result.all_items_flat = ItemsOf(AllEntries(walk_result.by_folder))
        /\ walk_result.stats.total_docs_processed = Len(doc_log)

\* C29: mark_action_item_done for paragraph_index p sets status to "done" on
\* exactly one stored item, one whose paragraph_index is p, and leaves every
\* other item and every other field as it was; when no stored item has that
\* paragraph_index the answer is 404 and the file is not written.
C29_MarksExactlyOne ==
    [][ \A r \in Requests :
          /\ (req[r].op = "mark_action_item_done" /\ req[r].pc = "save" /\ req'[r].saved
                /\ req[r].loaded = output_json) =>
                \E i \in 1..Len(output_json) :
                    /\ Str(output_json[i].paragraph_index) = Str(req[r].change.paragraph_index)
                    /\ output_json' = [output_json EXCEPT ![i].status = "done"]
          /\ (req[r].pc = "idle" /\ req'[r].op = "mark_action_item_done"
                /\ req'[r].http = 404) =>
                /\ output_json' = output_json
                /\ ~req'[r].saved
                /\ req'[r].pc = "done"
      ]_vars

====
